---- MODULE Spec2Model ----
(***************************************************************************)
(* dash2hls: the HLS window writer (hls_writer.py, hls_generator.py), the  *)
(* stream session pipeline (session.py), the stream manager (manager.py)   *)
(* and the key selection of the external decryptor (decryptor.py).         *)
(*                                                                         *)
(* Python's None is the empty tuple; an optional value v is <<v>>.         *)
(***************************************************************************)
EXTENDS Integers, Sequences, FiniteSets, TLC

VARIABLES
  hls,              \* StreamSession._hls_writer: None or <<MultiVariantHLSWriter>>
  disk,             \* the output directory tree of the session
  evicted,          \* history: filenames the last add_segment call evicted
  run,              \* history: k when the add_segment calls so far were 1, 2, .., k
  ensure_call,      \* history: the arguments of the last direct ensure_variant call
  origin,           \* what mpd_url serves: None (any manifest, poll by poll) or <<manifest>>
  cfg,              \* StreamSession.config (and what build_decryptor finds on PATH)
  registered,       \* StreamManager._sessions holds the session
  add_result,       \* history: how the add_stream call ended
  status,           \* StreamSession.status
  error,            \* StreamSession.error
  is_live,          \* StreamSession.is_live
  decryptor,        \* StreamSession._decryptor
  task,             \* StreamSession._task: "none", "pending", "cancelling", "done", "cancelled"
  pc,               \* where _run_loop is suspended
  stop_event,       \* StreamSession._stop_event
  manifest,         \* _run_loop's local manifest with the selected representations
  fresh,            \* _run_loop's locals video_new_segments / audio_new_segments
  last_sequences,   \* StreamSession._last_sequences
  processed_numbers,\* StreamSession._processed_numbers
  processed_set,    \* StreamSession._processed_set
  writes,           \* history: add_segment calls per track and segment number
  iter_failed,      \* history: the current poll iteration recorded an error
  spawned,          \* history: pipeline tasks created by start()
  ended,            \* history: pipeline tasks that are done
  stoppers,         \* stop() calls suspended in "await self._task"
  remove_call,      \* history: the argument and the result of the last remove_stream call
  response,         \* history: the last /hls/<stream_id>/<filename> request and its answer
  selection,        \* history: the representations of the last manifest and the two selected
  inits,            \* history: per track, the id of the representation selected when the
                    \* track's init segment was written (0 when the poll selects by manifest)
  failed,           \* history: per track, the segment whose download or decryption failed last,
                    \* and once _collect_new_segments ran for the track again (seen): whether
                    \* the manifest listed the segment and whether it came out as new
  keys,             \* Mp4DecryptBinary.key_map (insertion ordered)
  dec_call,         \* history: the arguments of the last decrypt_segment call
  dec_result,       \* history: how the last decrypt_segment call ended
  parsed,           \* history: the last call of a DashParser method and what it returned
  sessions,         \* StreamManager._sessions of a manager with several streams: per id, None or
                    \* <<the session's output_dir and the files it has written>>
  lock,             \* StreamManager._lock: whether it is held, and the callers waiting for it
  calls             \* per caller of the manager or of stop(): the call it made and where the
                    \* call is

writerVars == <<hls, disk, evicted, run, ensure_call>>
sessionVars == <<origin, cfg, registered, add_result, status, error, is_live, decryptor, task, pc, stop_event, manifest, fresh, last_sequences, processed_numbers, processed_set, writes, iter_failed, spawned, ended, stoppers, remove_call, response, selection, failed, inits>>
decryptVars == <<keys, dec_call, dec_result>>
parserVars == <<parsed>>
managerVars == <<sessions>>
lockVars == <<lock, calls>>
vars == <<writerVars, sessionVars, decryptVars, parserVars, managerVars, lockVars>>

None == <<>>
Some(v) == <<v>>

Tracks == {"video", "audio"}

Max(a, b) == IF a >= b THEN a ELSE b

(***************************************************************************)
(* Bounds of the model.                                                    *)
(***************************************************************************)
MaxWindow == 3      \* window_size is drawn from 0..MaxWindow
MaxSeq == 6         \* add_segment calls on the writer use sequences 1..MaxSeq
MaxKept == 3        \* calls on a writer that never evicts stop at this window length
MaxDuration == 2    \* segment durations are 1..MaxDuration seconds
MaxNumber == 8      \* manifests list segment numbers from 5..MaxNumber
MaxList == 3        \* a representation lists 1..MaxList segments
MaxWrites == 2      \* a track is followed until one number was added MaxWrites times

(***************************************************************************)
(* hls_generator.py                                                        *)
(***************************************************************************)

\* generate_media_playlist: the lines of the playlist, as a record.
\* int(target_duration + 0.5) is target_duration for whole seconds.
generate_media_playlist(segments, target_duration, sequence, live, end_list) ==
  [ target_duration |-> target_duration,
    media_sequence  |-> sequence,
    playlist_type   |-> IF ~live THEN "VOD" ELSE "",
    map_uri         |-> "init.mp4",
    extinf          |-> segments,
    end_list        |-> end_list ]

\* generate_master_playlist: one #EXT-X-MEDIA line per media entry, then one
\* #EXT-X-STREAM-INF line and its URI per variant.
generate_master_playlist(variants, media_entries) ==
  [ media      |-> media_entries,
    stream_inf |-> variants ]

(***************************************************************************)
(* hls_writer.py: HLSWriter                                                *)
(***************************************************************************)

\* f"segment_{sequence}.m4s"
Filename(sequence) == <<"segment_", sequence, ".m4s">>

HLSSegment(sequence, duration) ==
  [sequence |-> sequence, duration |-> duration, filename |-> Filename(sequence)]

\* HLSWriter.__init__ keeping the configured window_size for a VOD writer too.
HLSWriterWindowInVod(live, window_size) ==
  [ is_live         |-> live,
    window_size     |-> window_size,
    segments        |-> <<>>,
    target_duration |-> 1,
    finalized       |-> FALSE ]

\* HLSWriter.__init__; the directory is created empty.
HLSWriter(live, window_size) ==
  [ is_live         |-> live,
    window_size     |-> IF live THEN window_size ELSE 0,
    segments        |-> <<>>,
    target_duration |-> 1,
    finalized       |-> FALSE ]

EmptyDir == [init |-> FALSE, files |-> {}, playlist |-> None]

\* _write_playlist taking the media sequence from the newest entry of the window.
WritePlaylistNewest(w, dir) ==
  IF w.segments = <<>> THEN dir
  ELSE [dir EXCEPT !.playlist = Some(generate_media_playlist(
          [i \in 1..Len(w.segments) |-> [duration |-> w.segments[i].duration, uri |-> w.segments[i].filename]],
          w.target_duration,
          w.segments[Len(w.segments)].sequence,
          w.is_live,
          w.finalized /\ ~w.is_live))]

\* _write_playlist ending the playlist of every finalized writer, live or not.
WritePlaylistEndListLive(w, dir) ==
  IF w.segments = <<>> THEN dir
  ELSE [dir EXCEPT !.playlist = Some(generate_media_playlist(
          [i \in 1..Len(w.segments) |-> [duration |-> w.segments[i].duration, uri |-> w.segments[i].filename]],
          w.target_duration,
          w.segments[1].sequence,
          w.is_live,
          w.finalized))]

\* HLSWriter._write_playlist: nothing is written for an empty window.
_write_playlist(w, dir) ==
  IF w.segments = <<>> THEN dir
  ELSE [dir EXCEPT !.playlist = Some(generate_media_playlist(
          [i \in 1..Len(w.segments) |-> [duration |-> w.segments[i].duration, uri |-> w.segments[i].filename]],
          w.target_duration,
          w.segments[1].sequence,
          w.is_live,
          w.finalized /\ ~w.is_live))]

\* The eviction loop keeping one entry too many.
RECURSIVE EvictLoopLate(_, _, _, _)
EvictLoopLate(segments, files, window_size, gone) ==
  IF Len(segments) > window_size + 1
  THEN EvictLoopLate(Tail(segments), files \ {Head(segments).filename}, window_size, gone \cup {Head(segments).filename})
  ELSE [segments |-> segments, files |-> files, gone |-> gone]

\* The eviction loop forgetting to unlink the evicted entry's file.
RECURSIVE EvictLoopNoUnlink(_, _, _, _)
EvictLoopNoUnlink(segments, files, window_size, gone) ==
  IF Len(segments) > window_size
  THEN EvictLoopNoUnlink(Tail(segments), files, window_size, gone \cup {Head(segments).filename})
  ELSE [segments |-> segments, files |-> files, gone |-> gone]

\* The eviction loop of add_segment: popleft and unlink while the window is too long.
RECURSIVE EvictLoop(_, _, _, _)
EvictLoop(segments, files, window_size, gone) ==
  IF Len(segments) > window_size
  THEN EvictLoop(Tail(segments), files \ {Head(segments).filename}, window_size, gone \cup {Head(segments).filename})
  ELSE [segments |-> segments, files |-> files, gone |-> gone]

\* HLSWriter.add_segment
HLSWriter_add_segment(w, dir, sequence, duration) ==
  LET written == dir.files \cup {Filename(sequence)}
      appended == Append(w.segments, HLSSegment(sequence, duration))
      ev == IF w.window_size # 0
            THEN EvictLoop(appended, written, w.window_size, {})
            ELSE [segments |-> appended, files |-> written, gone |-> {}]
      w2 == [w EXCEPT !.segments = ev.segments, !.target_duration = Max(w.target_duration, duration)]
  IN  [w |-> w2, dir |-> _write_playlist(w2, [dir EXCEPT !.files = ev.files]), gone |-> ev.gone]

\* HLSWriter.finalize
HLSWriter_finalize(w, dir) ==
  LET w2 == [w EXCEPT !.finalized = TRUE]
  IN  [w |-> w2, dir |-> _write_playlist(w2, dir)]

(***************************************************************************)
(* hls_writer.py: VariantState and MultiVariantHLSWriter                   *)
(***************************************************************************)

\* The directory of a track below the output directory (the root is <<>>).
TrackDir(name, track_type) ==
  IF track_type = "video" /\ name = "video" THEN <<>> ELSE <<name>>

Paths == {<<>>} \cup {<<n>> : n \in Tracks}

\* VariantState.playlist_uri: the media playlist relative to the output directory.
playlist_uri(state) == TrackDir(state.name, state.track_type) \o <<"index.m3u8">>

\* MultiVariantHLSWriter.__init__
MultiVariantHLSWriter(live, window_size) ==
  [ is_live     |-> live,
    window_size |-> window_size,
    variants    |-> [n \in Tracks |-> None],
    order       |-> <<>>,
    finalized   |-> FALSE ]

EmptyDisk == [dirs |-> [p \in Paths |-> EmptyDir], master |-> None]

\* The variants in dict insertion order.
VariantList(mv) == [i \in 1..Len(mv.order) |-> mv.variants[mv.order[i]][1]]

\* ensure_variant that builds a new state for a name it already has.
EnsureVariantReplaces(mv, name, track_type, meta) ==
  [mv EXCEPT
     !.variants[name] = Some([ name         |-> name,
                               track_type   |-> track_type,
                               writer       |-> HLSWriter(mv.is_live, mv.window_size),
                               bandwidth    |-> meta.bandwidth,
                               codecs       |-> meta.codecs,
                               resolution   |-> meta.resolution,
                               init_written |-> FALSE ]),
     !.order = IF mv.variants[name] # None THEN mv.order ELSE Append(mv.order, name)]

\* MultiVariantHLSWriter.ensure_variant
ensure_variant(mv, name, track_type, meta) ==
  IF mv.variants[name] # None
  THEN [mv EXCEPT !.variants[name] = Some([mv.variants[name][1] EXCEPT
          !.bandwidth = meta.bandwidth, !.codecs = meta.codecs, !.resolution = meta.resolution])]
  ELSE [mv EXCEPT
          !.variants[name] = Some([ name         |-> name,
                                    track_type   |-> track_type,
                                    writer       |-> HLSWriter(mv.is_live, mv.window_size),
                                    bandwidth    |-> meta.bandwidth,
                                    codecs       |-> meta.codecs,
                                    resolution   |-> meta.resolution,
                                    init_written |-> FALSE ]),
          !.order = Append(mv.order, name)]

RECURSIVE SumBandwidth(_)
SumBandwidth(states) ==
  IF states = <<>> THEN 0 ELSE Head(states).bandwidth + SumBandwidth(Tail(states))

\* The codecs (a truthy string) of the states, in order.
TruthyCodecs(states) ==
  LET keep(s) == s.codecs # ""
  IN  [i \in 1..Len(SelectSeq(states, keep)) |-> SelectSeq(states, keep)[i].codecs]

\* _write_master_playlist listing every configured variant, init written or not.
WriteMasterAllVariants(mv, d) ==
  LET isActive(s) == TRUE
      isAudio(s) == s.track_type = "audio"
      isVideo(s) == s.track_type = "video"
      active_variants == SelectSeq(VariantList(mv), isActive)
      audio_variants == SelectSeq(active_variants, isAudio)
      video_variants == SelectSeq(active_variants, isVideo)
      media_entries ==
        [i \in 1..Len(audio_variants) |->
           [ type |-> "AUDIO", group_id |-> "audio", name |-> audio_variants[i].name,
             uri |-> playlist_uri(audio_variants[i]), default |-> TRUE, autoselect |-> TRUE ]]
      audio_bandwidth_total == SumBandwidth(audio_variants)
      audio_codecs == TruthyCodecs(audio_variants)
      videoEntry(v) ==
        LET total_bandwidth == v.bandwidth + audio_bandwidth_total
            own == IF v.codecs # "" THEN <<v.codecs>> ELSE <<>>
            notOwn(c) == \A j \in 1..Len(own) : own[j] # c
        IN  [ bandwidth   |-> IF total_bandwidth # 0 THEN total_bandwidth ELSE v.bandwidth,
              uri         |-> playlist_uri(v),
              codecs      |-> own \o SelectSeq(audio_codecs, notOwn),
              resolution  |-> v.resolution,
              audio_group |-> IF audio_variants # <<>> THEN "audio" ELSE "" ]
      audioEntry(a) ==
        [ bandwidth   |-> a.bandwidth,
          uri         |-> playlist_uri(a),
          codecs      |-> IF a.codecs # "" THEN <<a.codecs>> ELSE <<>>,
          resolution  |-> None,
          audio_group |-> "" ]
      variants_for_master ==
        IF video_variants # <<>>
        THEN [i \in 1..Len(video_variants) |-> videoEntry(video_variants[i])]
        ELSE [i \in 1..Len(audio_variants) |-> audioEntry(audio_variants[i])]
  IN  IF active_variants = <<>> THEN d
      ELSE [d EXCEPT !.master = Some(generate_master_playlist(variants_for_master, media_entries))]

\* _write_master_playlist giving a video entry the video bandwidth alone.
WriteMasterVideoBandwidth(mv, d) ==
  LET isActive(s) == s.init_written
      isAudio(s) == s.track_type = "audio"
      isVideo(s) == s.track_type = "video"
      active_variants == SelectSeq(VariantList(mv), isActive)
      audio_variants == SelectSeq(active_variants, isAudio)
      video_variants == SelectSeq(active_variants, isVideo)
      media_entries ==
        [i \in 1..Len(audio_variants) |->
           [ type |-> "AUDIO", group_id |-> "audio", name |-> audio_variants[i].name,
             uri |-> playlist_uri(audio_variants[i]), default |-> TRUE, autoselect |-> TRUE ]]
      audio_bandwidth_total == SumBandwidth(audio_variants)
      audio_codecs == TruthyCodecs(audio_variants)
      videoEntry(v) ==
        LET total_bandwidth == v.bandwidth
            own == IF v.codecs # "" THEN <<v.codecs>> ELSE <<>>
            notOwn(c) == \A j \in 1..Len(own) : own[j] # c
        IN  [ bandwidth   |-> IF total_bandwidth # 0 THEN total_bandwidth ELSE v.bandwidth,
              uri         |-> playlist_uri(v),
              codecs      |-> own \o SelectSeq(audio_codecs, notOwn),
              resolution  |-> v.resolution,
              audio_group |-> IF audio_variants # <<>> THEN "audio" ELSE "" ]
      audioEntry(a) ==
        [ bandwidth   |-> a.bandwidth,
          uri         |-> playlist_uri(a),
          codecs      |-> IF a.codecs # "" THEN <<a.codecs>> ELSE <<>>,
          resolution  |-> None,
          audio_group |-> "" ]
      variants_for_master ==
        IF video_variants # <<>>
        THEN [i \in 1..Len(video_variants) |-> videoEntry(video_variants[i])]
        ELSE [i \in 1..Len(audio_variants) |-> audioEntry(audio_variants[i])]
  IN  IF active_variants = <<>> THEN d
      ELSE [d EXCEPT !.master = Some(generate_master_playlist(variants_for_master, media_entries))]

\* MultiVariantHLSWriter._write_master_playlist
_write_master_playlist(mv, d) ==
  LET isActive(s) == s.init_written
      isAudio(s) == s.track_type = "audio"
      isVideo(s) == s.track_type = "video"
      active_variants == SelectSeq(VariantList(mv), isActive)
      audio_variants == SelectSeq(active_variants, isAudio)
      video_variants == SelectSeq(active_variants, isVideo)
      media_entries ==
        [i \in 1..Len(audio_variants) |->
           [ type |-> "AUDIO", group_id |-> "audio", name |-> audio_variants[i].name,
             uri |-> playlist_uri(audio_variants[i]), default |-> TRUE, autoselect |-> TRUE ]]
      audio_bandwidth_total == SumBandwidth(audio_variants)
      audio_codecs == TruthyCodecs(audio_variants)
      videoEntry(v) ==
        LET total_bandwidth == v.bandwidth + audio_bandwidth_total
            own == IF v.codecs # "" THEN <<v.codecs>> ELSE <<>>
            notOwn(c) == \A j \in 1..Len(own) : own[j] # c
        IN  [ bandwidth   |-> IF total_bandwidth # 0 THEN total_bandwidth ELSE v.bandwidth,
              uri         |-> playlist_uri(v),
              codecs      |-> own \o SelectSeq(audio_codecs, notOwn),
              resolution  |-> v.resolution,
              audio_group |-> IF audio_variants # <<>> THEN "audio" ELSE "" ]
      audioEntry(a) ==
        [ bandwidth   |-> a.bandwidth,
          uri         |-> playlist_uri(a),
          codecs      |-> IF a.codecs # "" THEN <<a.codecs>> ELSE <<>>,
          resolution  |-> None,
          audio_group |-> "" ]
      variants_for_master ==
        IF video_variants # <<>>
        THEN [i \in 1..Len(video_variants) |-> videoEntry(video_variants[i])]
        ELSE [i \in 1..Len(audio_variants) |-> audioEntry(audio_variants[i])]
  IN  IF active_variants = <<>> THEN d
      ELSE [d EXCEPT !.master = Some(generate_master_playlist(variants_for_master, media_entries))]

\* MultiVariantHLSWriter.write_init (the variant is configured: _require_variant)
write_init(mv, d, name) ==
  LET state == mv.variants[name][1]
      p == TrackDir(state.name, state.track_type)
      mv2 == [mv EXCEPT !.variants[name] = Some([state EXCEPT !.init_written = TRUE])]
  IN  [mv |-> mv2, disk |-> _write_master_playlist(mv2, [d EXCEPT !.dirs[p].init = TRUE])]

\* MultiVariantHLSWriter.add_segment (the variant is configured: _require_variant)
add_segment(mv, d, name, sequence, duration) ==
  LET state == mv.variants[name][1]
      p == TrackDir(state.name, state.track_type)
      r == HLSWriter_add_segment(state.writer, d.dirs[p], sequence, duration)
  IN  [ mv   |-> [mv EXCEPT !.variants[name] = Some([state EXCEPT !.writer = r.w])],
        disk |-> [d EXCEPT !.dirs[p] = r.dir],
        gone |-> r.gone ]

\* MultiVariantHLSWriter.finalize: every variant's writer in insertion order, then the master.
RECURSIVE FinalizeLoop(_, _, _)
FinalizeLoop(mv, d, names) ==
  IF names = <<>> THEN [mv |-> mv, disk |-> d]
  ELSE LET state == mv.variants[Head(names)][1]
           p == TrackDir(state.name, state.track_type)
           r == HLSWriter_finalize(state.writer, d.dirs[p])
       IN  FinalizeLoop([mv EXCEPT !.variants[Head(names)] = Some([state EXCEPT !.writer = r.w])],
                        [d EXCEPT !.dirs[p] = r.dir], Tail(names))

finalize(mv, d) ==
  LET r == FinalizeLoop(mv, d, mv.order)
      mv2 == [r.mv EXCEPT !.finalized = TRUE]
  IN  [mv |-> mv2, disk |-> _write_master_playlist(mv2, r.disk)]

(***************************************************************************)
(* decryptor.py                                                            *)
(*                                                                         *)
(* A KID is a string, modelled as the tuple of its characters; a key is    *)
(* [id, hexlen]: its name and the number of hexadecimal characters left    *)
(* after strip(), lower() and the removal of a leading "0x". A dict is the *)
(* tuple of its <<key, value>> items in insertion order.                   *)
(***************************************************************************)

MaxKeys == 2        \* a key_map holds at most MaxKeys entries

Lower(c) == IF c = "A" THEN "a" ELSE IF c = "B" THEN "b" ELSE c

\* Mp4DecryptBinary._normalize_kid: kid.replace("-", "").lower()
_normalize_kid(kid) ==
  LET notDash(c) == c # "-"
      kept == SelectSeq(kid, notDash)
  IN  [i \in 1..Len(kept) |-> Lower(kept[i])]

\* Mp4DecryptBinary._normalize_key: whether the length check passes
\* (len(key) in (32, 64)).
_normalize_key_ok(key) == key.hexlen \in {32, 64}

DictHas(d, k) == \E i \in 1..Len(d) : d[i][1] = k

DictGet(d, k) == d[CHOOSE i \in 1..Len(d) : d[i][1] = k][2]

\* d[k] = v: an existing key keeps its place.
DictSet(d, k, v) ==
  IF DictHas(d, k)
  THEN [i \in 1..Len(d) |-> IF d[i][1] = k THEN <<k, v>> ELSE d[i]]
  ELSE Append(d, <<k, v>>)

\* {self._normalize_kid(k): self._normalize_key(v) for k, v in key_map.items()}
RECURSIVE NormalizeItems(_, _)
NormalizeItems(items, acc) ==
  IF items = <<>> THEN acc
  ELSE NormalizeItems(Tail(items), DictSet(acc, _normalize_kid(Head(items)[1]), Head(items)[2]))

\* Mp4DecryptBinary.__init__ without the shutil.which test.
Mp4DecryptBinaryNoWhich(key_map, tool_found) ==
  IF key_map = <<>> THEN [ok |-> FALSE, raised |-> "ValueError: key_map must contain at least one entry", key_map |-> <<>>]
  ELSE IF \E i \in 1..Len(key_map) : ~_normalize_key_ok(key_map[i][2])
  THEN [ok |-> FALSE, raised |-> "ValueError: Keys must be 16 or 32 bytes", key_map |-> <<>>]
  ELSE [ok |-> TRUE, raised |-> "", key_map |-> NormalizeItems(key_map, <<>>)]

\* Mp4DecryptBinary.__init__: the object, or the exception it raises.
Mp4DecryptBinary(key_map, tool_found) ==
  IF key_map = <<>> THEN [ok |-> FALSE, raised |-> "ValueError: key_map must contain at least one entry", key_map |-> <<>>]
  ELSE IF \E i \in 1..Len(key_map) : ~_normalize_key_ok(key_map[i][2])
  THEN [ok |-> FALSE, raised |-> "ValueError: Keys must be 16 or 32 bytes", key_map |-> <<>>]
  ELSE IF ~tool_found
  THEN [ok |-> FALSE, raised |-> "FileNotFoundError", key_map |-> <<>>]
  ELSE [ok |-> TRUE, raised |-> "", key_map |-> NormalizeItems(key_map, <<>>)]

\* The key selection of decrypt_segment (lines 72-83): the <<kid, key>> the tool
\* is run with, or the DecryptionError.
SelectKey(key_map, kid) ==
  IF kid # None
  THEN LET k == _normalize_kid(kid)
       IN  IF DictHas(key_map, k) THEN [ok |-> TRUE, kid |-> k, key |-> DictGet(key_map, k)]
           ELSE IF Len(key_map) = 1 THEN [ok |-> TRUE, kid |-> key_map[1][1], key |-> key_map[1][2]]
           ELSE [ok |-> FALSE, kid |-> k, key |-> None]
  ELSE [ok |-> TRUE, kid |-> key_map[1][1], key |-> key_map[1][2]]

\* Mp4DecryptBinary.decrypt_segment: size is len(data); tool_ok says whether the
\* tool run (stdin mode, or the file mode it falls back to) ends well.
decrypt_segment(key_map, size, kid, tool_ok) ==
  IF size = 0 THEN [error |-> "No data provided for decryption", used |-> None]
  ELSE IF size < 8 THEN [error |-> "Data too small for MP4 file", used |-> None]
  ELSE LET sel == SelectKey(key_map, kid)
       IN  IF ~sel.ok THEN [error |-> "No key registered for KID", used |-> None]
           ELSE IF ~tool_ok THEN [error |-> "mp4decrypt failed", used |-> Some(<<sel.kid, sel.key>>)]
           ELSE [error |-> "", used |-> Some(<<sel.kid, sel.key>>)]

\* build_decryptor: the decryptor of a stream config, or the exception raised.
build_decryptor(c) ==
  LET hasKey == c.key # None
      hasMap == c.key_map # None /\ c.key_map[1] # <<>>
  IN  IF ~(hasKey \/ hasMap) THEN [ok |-> TRUE, raised |-> "", kind |-> "plaintext", key_map |-> <<>>]
      ELSE IF c.key_map = None /\ c.kid = None
      THEN [ok |-> FALSE, raised |-> "ValueError: A key_id (KID) must be provided alongside the key", kind |-> "none", key_map |-> <<>>]
      ELSE LET m == Mp4DecryptBinary(IF c.key_map = None THEN <<<<c.kid, c.key[1]>>>> ELSE c.key_map[1], c.tool_found)
           IN  [ok |-> m.ok, raised |-> m.raised, kind |-> IF m.ok THEN "mp4decrypt" ELSE "none", key_map |-> m.key_map]

(***************************************************************************)
(* The writer driven directly: ensure_variant, write_init, add_segment and *)
(* finalize called in any order on one MultiVariantHLSWriter.              *)
(***************************************************************************)

\* The duration in seconds of the stream's segment with the given number: a
\* segment keeps its duration however often it is listed or added.
SegDuration(number) == 1 + (number % MaxDuration)

\* bandwidth, codecs and resolution of the representation selected for a track
\* (session.py hands them to ensure_variant; no window depends on them).
RepMeta(track) ==
  IF track = "video"
  THEN [bandwidth |-> 3, codecs |-> "avc1", resolution |-> Some(<<16, 9>>)]
  ELSE [bandwidth |-> 1, codecs |-> "mp4a", resolution |-> None]

\* The session and the decryptor before anything is constructed or called.
IdleSession ==
  /\ origin = None
  /\ cfg = None
  /\ registered = FALSE
  /\ add_result = "none"
  /\ status = "initializing"
  /\ error = None
  /\ is_live = TRUE
  /\ decryptor = "none"
  /\ task = "none"
  /\ pc = "none"
  /\ stop_event = FALSE
  /\ manifest = None
  /\ fresh = [t \in Tracks |-> <<>>]
  /\ last_sequences = [t \in Tracks |-> None]
  /\ processed_numbers = [t \in Tracks |-> <<>>]
  /\ processed_set = [t \in Tracks |-> {}]
  /\ writes = [t \in Tracks |-> [n \in 5..MaxNumber |-> 0]]
  /\ iter_failed = FALSE
  /\ spawned = 0
  /\ ended = 0
  /\ stoppers = [awaiting |-> 0, resumed |-> 0]
  /\ remove_call = None
  /\ response = None
  /\ selection = None
  /\ failed = [t \in Tracks |-> None]
  /\ inits = [t \in Tracks |-> None]

IdleDecryptor ==
  /\ keys = <<>>
  /\ dec_call = None
  /\ dec_result = None

IdleParser == parsed = None

IdleManager == sessions = [stream_id \in {"s1", "s2"} |-> None]

MaxCallers == 3     \* callers 1..MaxCallers make one call each

Callers == 1..MaxCallers

\* asyncio.Lock(): unlocked, nobody waiting; no call made yet.
IdleLock ==
  /\ lock = [locked |-> FALSE, waiters |-> <<>>]
  /\ calls = [c \in Callers |-> [op |-> "none", pc |-> "idle", arg |-> None, waited |-> FALSE]]

InitWriter ==
  /\ \E live \in BOOLEAN, window_size \in 0..MaxWindow :
       hls = Some(MultiVariantHLSWriter(live, window_size))
  /\ disk = EmptyDisk
  /\ evicted = [dir |-> <<>>, gone |-> {}]
  /\ run = 0
  /\ ensure_call = None
  /\ IdleSession
  /\ IdleDecryptor
  /\ IdleParser
  /\ IdleManager
  /\ IdleLock

Configured(name) == hls # None /\ hls[1].variants[name] # None

\* The window of a configured track.
Window(name) == hls[1].variants[name][1].writer.segments

\* The directory of a configured track.
DirOf(name) == disk.dirs[TrackDir(name, hls[1].variants[name][1].track_type)]

\* One track is configured per behaviour: the tracks' writers share no state.
WEnsureVariant(name) ==
  /\ \A o \in Tracks \ {name} : ~Configured(o)
  /\ hls' = Some(ensure_variant(hls[1], name, name, RepMeta(name)))
  /\ UNCHANGED <<disk, evicted, run, ensure_call, sessionVars, decryptVars, parserVars, managerVars, lockVars>>

WWriteInit(name) ==
  /\ Configured(name)
  /\ LET r == write_init(hls[1], disk, name)
     IN  hls' = Some(r.mv) /\ disk' = r.disk
  /\ UNCHANGED <<evicted, run, ensure_call, sessionVars, decryptVars, parserVars, managerVars, lockVars>>

\* A writer that never evicts takes MaxKept segments.
WAddSegment(name, sequence) ==
  /\ Configured(name)
  /\ hls[1].variants[name][1].writer.window_size = 0 => Len(Window(name)) < MaxKept
  /\ LET r == add_segment(hls[1], disk, name, sequence, SegDuration(sequence))
     IN  /\ hls' = Some(r.mv)
         /\ disk' = r.disk
         /\ evicted' = [dir |-> TrackDir(name, hls[1].variants[name][1].track_type), gone |-> r.gone]
  /\ run' = IF run >= 0 /\ sequence = run + 1 THEN run + 1 ELSE -1
  /\ UNCHANGED <<ensure_call, sessionVars, decryptVars, parserVars, managerVars, lockVars>>

WFinalize ==
  /\ LET r == finalize(hls[1], disk)
     IN  hls' = Some(r.mv) /\ disk' = r.disk
  /\ UNCHANGED <<evicted, run, ensure_call, sessionVars, decryptVars, parserVars, managerVars, lockVars>>

NextWriter ==
  \/ \E name \in Tracks : WEnsureVariant(name)
  \/ \E name \in Tracks : WWriteInit(name)
  \/ \E name \in Tracks, sequence \in 1..MaxSeq : WAddSegment(name, sequence)
  \/ WFinalize

SpecWriter == InitWriter /\ [][NextWriter]_vars

(***************************************************************************)
(* The multi-variant writer driven directly with both names: any order of  *)
(* ensure_variant (with any track type and metadata), write_init and       *)
(* finalize.                                                               *)
(***************************************************************************)

MaxBandwidth == 2   \* a representation's bandwidth is 0..MaxBandwidth

\* The metadata a call passes: no codecs with bandwidth 0, a resolution with
\* the highest bandwidth.
Metas ==
  { [ bandwidth  |-> b,
      codecs     |-> IF b = 0 THEN "" ELSE "mp4a",
      resolution |-> IF b = MaxBandwidth THEN Some(<<16, 9>>) ELSE None ] : b \in 0..MaxBandwidth }

InitMaster ==
  /\ \E live \in BOOLEAN : hls = Some(MultiVariantHLSWriter(live, 1))
  /\ disk = EmptyDisk
  /\ evicted = [dir |-> <<>>, gone |-> {}]
  /\ run = 0
  /\ ensure_call = None
  /\ IdleSession
  /\ IdleDecryptor
  /\ IdleParser
  /\ IdleManager
  /\ IdleLock

MEnsureVariant(name, track_type, meta) ==
  /\ hls' = Some(ensure_variant(hls[1], name, track_type, meta))
  /\ UNCHANGED <<disk, evicted, run, ensure_call, sessionVars, decryptVars, parserVars, managerVars, lockVars>>

NextMaster ==
  \/ \E name \in Tracks, track_type \in Tracks, meta \in Metas : MEnsureVariant(name, track_type, meta)
  \/ \E name \in Tracks : WWriteInit(name)
  \/ WFinalize

SpecMaster == InitMaster /\ [][NextMaster]_vars

(***************************************************************************)
(* The same writer with every ensure_variant call recorded: the call's     *)
(* arguments, numbered modulo 2 so that a repeated call shows.             *)
(***************************************************************************)

EnsureVariantCall(name, track_type, meta) ==
  /\ hls' = Some(ensure_variant(hls[1], name, track_type, meta))
  /\ ensure_call' = Some([ name |-> name, track_type |-> track_type, meta |-> meta,
                           parity |-> IF ensure_call = None THEN 0 ELSE 1 - ensure_call[1].parity ])
  /\ UNCHANGED <<disk, evicted, run, sessionVars, decryptVars, parserVars, managerVars, lockVars>>

NextEnsure ==
  \/ \E name \in Tracks, track_type \in Tracks, meta \in Metas :
        EnsureVariantCall(name, track_type, meta)
  \/ \E name \in Tracks : WWriteInit(name)
  \/ \E name \in Tracks : WAddSegment(name, 1)

\* A live writer: its windows stay short.
InitEnsure == InitMaster /\ hls[1].is_live

SpecEnsure == InitEnsure /\ [][NextEnsure]_vars

(***************************************************************************)
(* The external decryptor driven directly: an Mp4DecryptBinary built from  *)
(* a key_map of one to MaxKeys entries, then calls of decrypt_segment.     *)
(***************************************************************************)

RawKids == {<<"A", "-", "b">>, <<"a", "b">>, <<"c">>, <<"d">>}

GoodKeys == {[id |-> "k1", hexlen |-> 32], [id |-> "k2", hexlen |-> 64]}

\* len(data): empty, shorter than an MP4 box header, long enough.
Sizes == {0, 4, 8}

\* The dicts of one to MaxKeys entries: no raw KID twice.
RawKeyMaps ==
  {m \in UNION {[1..n -> RawKids \X GoodKeys] : n \in 1..MaxKeys} :
     \A i, j \in 1..Len(m) : i # j => m[i][1] # m[j][1]}

InitDecrypt ==
  /\ \E m \in RawKeyMaps : keys = Mp4DecryptBinary(m, TRUE).key_map
  /\ dec_call = None
  /\ dec_result = None
  /\ hls = None
  /\ disk = EmptyDisk
  /\ evicted = [dir |-> <<>>, gone |-> {}]
  /\ run = 0
  /\ ensure_call = None
  /\ IdleSession
  /\ IdleParser
  /\ IdleManager
  /\ IdleLock

DecryptSegment(size, kid, tool_ok) ==
  /\ dec_call' = Some([size |-> size, kid |-> kid, tool_ok |-> tool_ok])
  /\ dec_result' = Some(decrypt_segment(keys, size, kid, tool_ok))
  /\ UNCHANGED <<keys, writerVars, sessionVars, parserVars, managerVars, lockVars>>

NextDecrypt ==
  \E size \in Sizes, kid \in RawKids \cup {None}, tool_ok \in BOOLEAN :
    DecryptSegment(size, kid, tool_ok)

SpecDecrypt == InitDecrypt /\ [][NextDecrypt]_vars

(***************************************************************************)
(* decrypt_segment with the tool run spelled out. A tool is what it does   *)
(* when its two file operands are "-" and what it does with two real       *)
(* paths; its output is a sequence of bytes, here none or one.             *)
(***************************************************************************)

\* What the tool does with the operands "-" "-":
\*   streams      reads stdin, writes stdout, exit 0
\*   silent       reads stdin, writes nothing, exit 0
\*   input_error  exit 1, "ERROR: cannot open input file (-) -4" on stderr
\*   stat_error   exit 1, "cannot stat '-': No such file or directory" on stderr
\*   other_error  exit 1, "error: no such file: -" on stderr
\*   as_paths     takes "-" for file names: reads what it can, writes a file
\*                called "-", nothing on stdout, exit 0
\*   bad_key      exit 1, "ERROR: invalid key" on stderr
\*   no_exec      the process cannot be started
DashBehaviours ==
  {"streams", "silent", "input_error", "stat_error", "other_error", "as_paths", "bad_key", "no_exec"}

\* The behaviours of a tool that works with real file paths only.
NoDashSupport == {"input_error", "stat_error", "other_error", "as_paths"}

Tools == [dash : DashBehaviours, file_exit : {0, 1}, file_output : {<<>>, <<"plain">>}]

\* "cannot open input file" in text or "cannot stat '-'" in text
StdinRelated(text) ==
  text \in {"ERROR: cannot open input file (-) -4", "cannot stat '-': No such file or directory"}

\* Mp4DecryptBinary._decrypt_via_stdin: the bytes, or the parts of the
\* DecryptionError message that come from the tool.
_decrypt_via_stdin(tool) ==
  CASE tool.dash = "no_exec" ->
         [raised |-> TRUE, message |-> <<"Failed to execute mp4decrypt">>, bytes |-> <<>>]
    [] tool.dash \in {"input_error", "stat_error", "other_error", "bad_key"} ->
         [raised |-> TRUE,
          message |-> <<"mp4decrypt failed (exit code 1)",
                        CASE tool.dash = "input_error" -> "ERROR: cannot open input file (-) -4"
                          [] tool.dash = "stat_error" -> "cannot stat '-': No such file or directory"
                          [] tool.dash = "other_error" -> "error: no such file: -"
                          [] OTHER -> "ERROR: invalid key">>,
          bytes |-> <<>>]
    [] tool.dash \in {"silent", "as_paths"} ->
         [raised |-> TRUE, message |-> <<"mp4decrypt produced no output">>, bytes |-> <<>>]
    [] OTHER ->
         [raised |-> FALSE, message |-> <<>>, bytes |-> <<"plain">>]

\* Mp4DecryptBinary._decrypt_via_tempfile: two temporary files are created,
\* the tool is run on them, the output file is read, and both are unlinked
\* in the finally clause.
_decrypt_via_tempfile(tool) ==
  LET created == {"input", "output"}
      unlinked == created \ {"input", "output"}
  IN  IF tool.file_exit # 0
      THEN [raised |-> TRUE, message |-> <<"mp4decrypt failed with temp file method">>, bytes |-> <<>>,
            temp_files |-> unlinked]
      ELSE IF tool.file_output = <<>>
      THEN [raised |-> TRUE, message |-> <<"Failed to read decrypted output file">>, bytes |-> <<>>,
            temp_files |-> unlinked]
      ELSE [raised |-> FALSE, message |-> <<>>, bytes |-> tool.file_output, temp_files |-> unlinked]

\* Mp4DecryptBinary.decrypt_segment, lines 85-96: the stdin run, and the
\* temporary-file run when the message of the stdin run names the operand.
decrypt_with(tool) ==
  LET primary == _decrypt_via_stdin(tool)
  IN  IF ~primary.raised
      THEN [raised |-> FALSE, message |-> <<>>, bytes |-> primary.bytes, fallback |-> FALSE,
            temp_files |-> {}]
      ELSE IF \E i \in 1..Len(primary.message) : StdinRelated(primary.message[i])
      THEN LET second == _decrypt_via_tempfile(tool)
           IN  [raised |-> second.raised, message |-> second.message, bytes |-> second.bytes,
                fallback |-> TRUE, temp_files |-> second.temp_files]
      ELSE [raised |-> TRUE, message |-> primary.message, bytes |-> <<>>, fallback |-> FALSE,
            temp_files |-> {}]

\* decrypt_segment on a payload of at least 8 bytes with the given tool.
DecryptWithTool(kid, tool) ==
  /\ dec_call' = Some([size |-> 8, kid |-> kid, tool |-> tool])
  /\ dec_result' = Some(LET sel == SelectKey(keys, kid)
                        IN  IF ~sel.ok
                            THEN [raised |-> TRUE, message |-> <<"No key registered for KID">>,
                                  bytes |-> <<>>, fallback |-> FALSE, temp_files |-> {}]
                            ELSE decrypt_with(tool))
  /\ UNCHANGED <<keys, writerVars, sessionVars, parserVars, managerVars, lockVars>>

NextFallback ==
  \E kid \in RawKids \cup {None}, tool \in Tools : DecryptWithTool(kid, tool)

SpecFallback == InitDecrypt /\ [][NextFallback]_vars

(***************************************************************************)
(* session.py and manager.py: one session driven through the manager.      *)
(*                                                                         *)
(* A parsed manifest is [is_live, segments]: segments[t] is None when no   *)
(* representation is selected for track t, else <<numbers>>, the segment   *)
(* numbers of the selected representation (dash_parser.py numbers them     *)
(* start_number, start_number + 1, ..).                                    *)
(***************************************************************************)

Numbers == 5..MaxNumber

\* The segment lists of a parsed representation: consecutive numbers, never
\* empty. The stream starts at number 5 and a manifest lists its newest
\* segments, at most MaxList of them.
Ranges ==
  {r \in UNION {[1..n -> Numbers] : n \in 1..MaxList} :
     /\ \A i \in 1..(Len(r) - 1) : r[i + 1] = r[i] + 1
     /\ (Len(r) = MaxList \/ r[1] = 5)}

\* What _select_representations returns: nothing, a video representation, or a
\* video and an audio representation with the same numbering.
Selections ==
  {[video |-> None, audio |-> None]}
    \cup {[video |-> Some(r), audio |-> None] : r \in Ranges}
    \cup {[video |-> Some(r), audio |-> Some(r)] : r \in Ranges}

Manifests == {[is_live |-> l, segments |-> sel] : l \in BOOLEAN, sel \in Selections}

\* default_kid of the selected representations.
DefaultKid(track) == IF track = "video" THEN <<"A", "-", "b">> ELSE None

ShortKey == [id |-> "k3", hexlen |-> 30]

\* The stream configs add_stream is called with: key material and whether
\* mp4decrypt is found on PATH, window_size, history_size.
Configs ==
  LET k1 == CHOOSE k \in GoodKeys : k.id = "k1"
      c(key, kid, tool_found, history_size) ==
        [ key |-> key, kid |-> kid, key_map |-> None, tool_found |-> tool_found,
          window_size |-> 2, history_size |-> history_size ]
  IN  { c(None, None, FALSE, 1),
        c(None, None, FALSE, 0),
        c(None, None, FALSE, -1),
        c(Some(k1), <<"a", "b">>, TRUE, 1),
        c(Some(ShortKey), <<"a", "b">>, TRUE, 1),
        c(Some(k1), None, TRUE, 1),
        c(Some(k1), <<"a", "b">>, FALSE, 1) }

\* StreamSession.__init__: self._history_limit
_history_limit(c) == IF c.history_size # 0 THEN c.history_size ELSE 128

\* the test against last_sequence left out
CollectBySetOnly(segments, set, last_sequence) ==
  LET isFresh(number) == number \notin set
  IN  SelectSeq(segments, isFresh)

\* StreamSession._collect_new_segments
_collect_new_segments(segments, set, last_sequence) ==
  LET isFresh(number) ==
        /\ number \notin set
        /\ ~(last_sequence # None /\ number <= last_sequence[1])
  IN  SelectSeq(segments, isFresh)

\* The while loop of _mark_processed: popleft() of an empty deque raises IndexError.
RECURSIVE TrimHistory(_, _, _)
TrimHistory(numbers, set, limit) ==
  IF Len(numbers) > limit
  THEN IF numbers = <<>>
       THEN [raised |-> TRUE, numbers |-> numbers, set |-> set]
       ELSE TrimHistory(Tail(numbers), set \ {Head(numbers)}, limit)
  ELSE [raised |-> FALSE, numbers |-> numbers, set |-> set]

\* StreamSession._mark_processed
_mark_processed(numbers, set, number, limit) ==
  IF number \in set THEN [raised |-> FALSE, numbers |-> numbers, set |-> set]
  ELSE TrimHistory(Append(numbers, number), set \cup {number}, limit)

\* The history of a segment whose download or decryption has just failed.
Failed(number) == [number |-> number, seen |-> FALSE, listed |-> FALSE, new |-> FALSE]

\* The session's mutable state as one record, so that the straight-line code
\* between two awaits composes as functions from record to record.
Cur ==
  [ status |-> status, error |-> error, is_live |-> is_live, task |-> task, pc |-> pc,
    manifest |-> manifest, fresh |-> fresh, last_sequences |-> last_sequences,
    processed_numbers |-> processed_numbers, processed_set |-> processed_set,
    writes |-> writes, iter_failed |-> iter_failed, hls |-> hls, disk |-> disk,
    selection |-> selection, failed |-> failed, inits |-> inits ]

\* (s is bound by a quantifier so that it is evaluated once.)
Commit(next) ==
  \E s \in {next} :
    /\ status' = s.status
    /\ error' = s.error
    /\ is_live' = s.is_live
    /\ task' = s.task
    /\ pc' = s.pc
    /\ manifest' = s.manifest
    /\ fresh' = s.fresh
    /\ last_sequences' = s.last_sequences
    /\ processed_numbers' = s.processed_numbers
    /\ processed_set' = s.processed_set
    /\ writes' = s.writes
    /\ iter_failed' = s.iter_failed
    /\ hls' = s.hls
    /\ disk' = s.disk
    /\ selection' = s.selection
    /\ inits' = s.inits
    /\ failed' = [t \in Tracks |->
                    IF s.failed[t] # None /\ s.failed[t] = failed[t] /\ failed[t][1].seen
                    THEN None ELSE s.failed[t]]
    /\ ended' = IF task = "pending" /\ s.task # "pending" THEN ended + 1 ELSE ended
    /\ UNCHANGED <<origin, cfg, registered, remove_call, response, add_result, decryptor, stop_event, evicted, run, ensure_call,
                   decryptVars, parserVars, managerVars, lockVars,
                   spawned, stoppers>>

\* A variant of _record_error that stores the message and leaves the status as it is.
RecordErrorKeepsStatus(s, message) ==
  [s EXCEPT !.error = Some(message), !.iter_failed = TRUE]

\* StreamSession._record_error
_record_error(s, message) ==
  [s EXCEPT !.error = Some(message), !.status = "error", !.iter_failed = TRUE]

\* A variant of _sleep in which an iteration that recorded an error ends the task.
SleepEndsOnError(s) ==
  IF s.iter_failed
  THEN [s EXCEPT !.pc = "returned", !.task = "done", !.manifest = None,
                 !.fresh = [t \in Tracks |-> <<>>]]
  ELSE [s EXCEPT !.pc = "sleep", !.manifest = None, !.fresh = [t \in Tracks |-> <<>>]]

\* await self._sleep(..): the iteration is over, its locals are dead.
_sleep(s) ==
  [s EXCEPT !.pc = "sleep", !.manifest = None, !.fresh = [t \in Tracks |-> <<>>]]

Selected(s, t) == s.manifest[1].segments[t] # None

Segs(s, t) == s.manifest[1].segments[t][1]

\* _run_loop lines 176-202: the VOD completion check, then the sleep of line 209.
VodCheck(s) ==
  LET complete(t) ==
        IF Selected(s, t) /\ Segs(s, t) # <<>>
        THEN /\ s.last_sequences[t] # None
             /\ s.last_sequences[t][1] >= Segs(s, t)[Len(Segs(s, t))]
        ELSE TRUE
  IN  IF ~s.manifest[1].is_live /\ complete("video") /\ complete("audio")
      THEN LET r == finalize(s.hls[1], s.disk)
           IN  [s EXCEPT !.hls = Some(r.mv), !.disk = r.disk, !.status = "completed",
                         !.pc = "returned", !.task = "done"]
      ELSE _sleep(s)

\* _run_loop lines 160-174: collect the new segments of both tracks, then start
\* _process_multivariant_segments or go on to the completion check.
Collect(s) ==
  LET f == [t \in Tracks |->
              IF Selected(s, t)
              THEN _collect_new_segments(Segs(s, t), s.processed_set[t], s.last_sequences[t])
              ELSE <<>>]
      seen == [t \in Tracks |->
                 IF ~Selected(s, t) \/ s.failed[t] = None THEN s.failed[t]
                 ELSE Some([ number |-> s.failed[t][1].number, seen |-> TRUE,
                             listed |-> \E i \in 1..Len(Segs(s, t)) : Segs(s, t)[i] = s.failed[t][1].number,
                             new |-> \E i \in 1..Len(f[t]) : f[t][i] = s.failed[t][1].number ])]
  IN  IF f["video"] # <<>> THEN [s EXCEPT !.fresh = f, !.failed = seen, !.pc = "segment_video"]
      ELSE IF f["audio"] # <<>> THEN [s EXCEPT !.fresh = f, !.failed = seen, !.pc = "segment_audio"]
      ELSE VodCheck([s EXCEPT !.failed = seen])

\* _ensure_initialisation creating the audio variant without fetching its init
\* segment.
EnsureAudioSkipsInit(s) ==
  IF Selected(s, "audio")
  THEN Collect([s EXCEPT !.hls = Some(ensure_variant(s.hls[1], "audio", "audio", RepMeta("audio")))])
  ELSE Collect(s)

\* _ensure_initialisation, the audio half (lines 241-254).
EnsureAudio(s) ==
  IF Selected(s, "audio")
  THEN LET mv == ensure_variant(s.hls[1], "audio", "audio", RepMeta("audio"))
           s1 == [s EXCEPT !.hls = Some(mv)]
       IN  IF ~mv.variants["audio"][1].init_written
           THEN [s1 EXCEPT !.pc = "init_audio"]
           ELSE Collect(s1)
  ELSE Collect(s)

\* The video half fetching the init segment again whenever the selected representation
\* is not the one the init segment was written for.
EnsureVideoRefetches(s) ==
  IF Selected(s, "video")
  THEN LET mv == ensure_variant(s.hls[1], "video", "video", RepMeta("video"))
           s1 == [s EXCEPT !.hls = Some(mv)]
       IN  IF ~mv.variants["video"][1].init_written
              \/ (s.inits["video"] # None /\ s.selection # None
                  /\ s.selection[1].video[1].id # s.inits["video"][1])
           THEN [s1 EXCEPT !.pc = "init_video"]
           ELSE EnsureAudio(s1)
  ELSE EnsureAudio(s)

\* _ensure_initialisation, the video half (lines 223-239).
EnsureVideo(s) ==
  IF Selected(s, "video")
  THEN LET mv == ensure_variant(s.hls[1], "video", "video", RepMeta("video"))
           s1 == [s EXCEPT !.hls = Some(mv)]
       IN  IF ~mv.variants["video"][1].init_written
           THEN [s1 EXCEPT !.pc = "init_video"]
           ELSE EnsureAudio(s1)
  ELSE EnsureAudio(s)

\* downloader.download(url) then self._decrypt_segment(payload, default_kid):
\* "" when both succeed, else the message of the exception.
Outcomes == {"ok", "download failed", "mp4decrypt failed"}

Fetched(track, outcome) ==
  IF outcome = "download failed" THEN "download failed"
  ELSE IF decryptor = "plaintext" THEN ""
  ELSE decrypt_segment(keys, 8, DefaultKid(track), outcome = "ok").error

Init ==
  /\ hls = None
  /\ disk = EmptyDisk
  /\ evicted = [dir |-> <<>>, gone |-> {}]
  /\ run = 0
  /\ ensure_call = None
  /\ IdleSession
  /\ IdleDecryptor
  /\ IdleParser
  /\ IdleManager
  /\ IdleLock

\* StreamManager.add_stream, called once: construct the session, register it,
\* start() it.
\* start() builds the decryptor and creates the pipeline task, or sets status
\* error and re-raises what build_decryptor raised.
AddStream(c) ==
  /\ cfg = None
  /\ cfg' = Some(c)
  /\ registered' = TRUE
  /\ LET b == build_decryptor(c)
     IN  IF b.ok
         THEN /\ decryptor' = b.kind
              /\ keys' = b.key_map
              /\ stop_event' = FALSE
              /\ status' = "starting"
              /\ task' = "pending"
              /\ pc' = "created"
              /\ add_result' = "returned"
              /\ spawned' = spawned + 1
              /\ UNCHANGED error
         ELSE /\ status' = "error"
              /\ error' = Some("Failed to initialise decryptor")
              /\ add_result' = "raised"
              /\ UNCHANGED <<decryptor, keys, stop_event, task, pc, spawned>>
  /\ UNCHANGED <<writerVars, origin, remove_call, response, selection, failed, inits, is_live, manifest, fresh, last_sequences, processed_numbers,
                 processed_set, writes, iter_failed, dec_call, dec_result, parserVars, managerVars, lockVars, ended, stoppers>>

\* The loop test with status starting set again at the head of every poll.
LoopHeadRestarting ==
  /\ task = "pending"
  /\ pc \in {"created", "sleep"}
  /\ IF stop_event
     THEN Commit([Cur EXCEPT !.status = IF status \in {"error", "completed"} THEN status ELSE "stopped",
                             !.pc = "returned", !.task = "done"])
     ELSE Commit([Cur EXCEPT !.pc = "mpd", !.iter_failed = FALSE, !.status = "starting"])

\* The test of "while not self._stop_event.is_set()" when the task first runs
\* and after each sleep; lines 211-212 when the loop ends.
LoopHead ==
  /\ task = "pending"
  /\ pc \in {"created", "sleep"}
  /\ IF stop_event
     THEN Commit([Cur EXCEPT !.status = IF status \in {"error", "completed"} THEN status ELSE "stopped",
                             !.pc = "returned", !.task = "done"])
     ELSE Commit([Cur EXCEPT !.pc = "mpd", !.iter_failed = FALSE])

\* download_text or DashParser.parse raises (lines 125-137).
PollFails(message) ==
  /\ task = "pending"
  /\ pc = "mpd"
  /\ Commit(_sleep(_record_error(Cur, message)))

\* The manifest is downloaded and parsed (lines 139-160): up to the first await
\* of _ensure_initialisation, or through the whole iteration when nothing is
\* to be downloaded.
PollManifest(m) ==
  /\ task = "pending"
  /\ pc = "mpd"
  /\ origin \in {None, Some(m)}
  /\ LET s1 == [Cur EXCEPT !.is_live = m.is_live, !.manifest = Some(m),
                           !.hls = IF hls = None
                                   THEN Some(MultiVariantHLSWriter(m.is_live, cfg[1].window_size))
                                   ELSE hls]
     IN  IF m.segments["video"] = None /\ m.segments["audio"] = None
         THEN Commit(_sleep(_record_error(s1, "No matching video or audio representation in manifest")))
         ELSE Commit(EnsureVideo(s1))

\* The id of the representation the poll selected for the track; PollManifest draws
\* the selected segment lists and names no representation.
SelectedId(track) == IF selection = None THEN 0 ELSE selection[1][track][1].id

\* The init segment of a track is downloaded, decrypted and written, or the
\* download or the decryption raises (lines 234-239, 249-254, 204-207).
FetchInit(track, outcome) ==
  /\ task = "pending"
  /\ pc = IF track = "video" THEN "init_video" ELSE "init_audio"
  /\ outcome = "mp4decrypt failed" => decryptor = "mp4decrypt"
  /\ IF Fetched(track, outcome) # ""
     THEN Commit(_sleep(_record_error(Cur, Fetched(track, outcome))))
     ELSE LET r == write_init(hls[1], disk, track)
              s1 == [Cur EXCEPT !.hls = Some(r.mv), !.disk = r.disk,
                                !.inits[track] = Some(SelectedId(track))]
          IN  Commit(IF track = "video" THEN EnsureAudio(s1) ELSE Collect(s1))

\* One pass of the loop of _process_track_segments (lines 288-301), then what
\* follows it when the list is exhausted: the other track, status running
\* (line 173) and the completion check.
ProcessSegment(track, outcome) ==
  /\ task = "pending"
  /\ pc = IF track = "video" THEN "segment_video" ELSE "segment_audio"
  /\ outcome = "mp4decrypt failed" => decryptor = "mp4decrypt"
  /\ LET number == Head(fresh[track])
         after(s) ==
           IF track = "video" /\ s.fresh["audio"] # <<>>
           THEN [s EXCEPT !.pc = "segment_audio"]
           ELSE VodCheck([s EXCEPT !.status = "running"])
     IN  /\ \A n \in Numbers : writes[track][n] < MaxWrites
         /\ IF stop_event THEN Commit(after(Cur))
            ELSE IF Fetched(track, outcome) # ""
            THEN Commit(_sleep(_record_error([Cur EXCEPT !.failed[track] = Some(Failed(number))],
                                             Fetched(track, outcome))))
            ELSE LET r == add_segment(hls[1], disk, track, number, SegDuration(number))
                     mp == _mark_processed(processed_numbers[track], processed_set[track],
                                           number, _history_limit(cfg[1]))
                     s1 == [Cur EXCEPT !.hls = Some(r.mv), !.disk = r.disk,
                                       !.writes[track][number] = @ + 1,
                                       !.processed_numbers[track] = mp.numbers,
                                       !.processed_set[track] = mp.set]
                 IN  IF mp.raised
                     THEN Commit(_sleep(_record_error(s1, "pop from an empty deque")))
                     ELSE \E s2 \in {[s1 EXCEPT !.last_sequences[track] = Some(number),
                                                !.fresh[track] = Tail(@)]} :
                            IF s2.fresh[track] # <<>> THEN Commit(s2)
                            ELSE Commit(after(s2))

\* The ids remove_stream and the queries are called with: the uuid4 string
\* add_stream gives its session, and one it never gives.
SessionId == "s1"

Ids == {SessionId, "s2"}

\* StreamManager._sessions, as the ids it maps
_sessions == IF registered THEN {SessionId} ELSE {}

\* StreamManager.get_stream_info, with the fields of info() that change
get_stream_info(stream_id) ==
  IF stream_id \in _sessions
  THEN Some([stream_id |-> stream_id, status |-> status, error |-> error, is_live |-> is_live])
  ELSE None

\* StreamManager.list_streams
list_streams == {get_stream_info(stream_id)[1] : stream_id \in _sessions}

\* StreamManager.get_output_path: base_output_dir / stream_id
get_output_path(stream_id) ==
  IF stream_id \in _sessions THEN Some(<<"output", stream_id>>) ELSE None

\* remove_stream with get() in place of pop(): the session stays in the registry.
RemoveStreamKeepsEntry(swallowed) ==
  /\ registered
  /\ swallowed => (task = "pending" /\ pc = "sleep")
  /\ stop_event' = TRUE
  /\ task' = IF task = "pending" THEN (IF swallowed THEN "done" ELSE "cancelled") ELSE task
  /\ pc' = IF task = "pending" THEN (IF swallowed THEN "returned" ELSE "cancelled") ELSE pc
  /\ status' = "stopped"
  /\ ended' = IF task = "pending" THEN ended + 1 ELSE ended
  /\ remove_call' = Some([stream_id |-> SessionId, result |-> TRUE])
  /\ UNCHANGED <<writerVars, decryptVars, parserVars, managerVars, lockVars, origin, cfg, response, selection, failed, inits, add_result, error, is_live, decryptor, manifest,
                 fresh, last_sequences, processed_numbers, processed_set, writes, iter_failed,
                 spawned, stoppers, registered>>

\* stop() that sets the stop event and the status but neither cancels the task
\* nor waits for it.
RemoveStreamNoCancel(swallowed) ==
  /\ registered
  /\ swallowed => (task = "pending" /\ pc = "sleep")
  /\ registered' = FALSE
  /\ stop_event' = TRUE
  /\ status' = "stopped"
  /\ remove_call' = Some([stream_id |-> SessionId, result |-> TRUE])
  /\ UNCHANGED <<writerVars, decryptVars, parserVars, managerVars, lockVars, origin, cfg, response, selection, failed, inits, add_result, error, is_live, decryptor, manifest,
                 fresh, last_sequences, processed_numbers, processed_set, writes, iter_failed, task, pc,
                 spawned, ended, stoppers>>

\* StreamManager.remove_stream: pop the session and stop() it. stop() sets the
\* stop event, cancels the task, awaits it and sets status stopped. A task
\* suspended in _sleep is inside asyncio.wait_for on the stop event: before
\* Python 3.12 wait_for returns normally when the awaited event completes in
\* the same loop turn as the cancellation (swallowed), and the loop then ends by
\* its own test.
RemoveStream(swallowed) ==
  /\ registered
  /\ swallowed => (task = "pending" /\ pc = "sleep")
  /\ registered' = FALSE
  /\ stop_event' = TRUE
  /\ task' = IF task = "pending" THEN (IF swallowed THEN "done" ELSE "cancelled") ELSE task
  /\ pc' = IF task = "pending" THEN (IF swallowed THEN "returned" ELSE "cancelled") ELSE pc
  /\ status' = "stopped"
  /\ ended' = IF task = "pending" THEN ended + 1 ELSE ended
  /\ remove_call' = Some([stream_id |-> SessionId, result |-> TRUE])
  /\ UNCHANGED <<writerVars, decryptVars, parserVars, managerVars, lockVars, origin, cfg, response, selection, failed, inits, add_result, error, is_live, decryptor, manifest,
                 fresh, last_sequences, processed_numbers, processed_set, writes, iter_failed,
                 spawned, stoppers>>

Step ==
  \/ LoopHead
  \/ \E message \in {"Failed to download MPD", "Failed to parse MPD"} : PollFails(message)
  \/ \E m \in Manifests : PollManifest(m)
  \/ \E track \in Tracks, outcome \in Outcomes : FetchInit(track, outcome)
  \/ \E track \in Tracks, outcome \in Outcomes : ProcessSegment(track, outcome)

Next ==
  \/ \E c \in Configs : AddStream(c)
  \/ Step
  \/ \E swallowed \in BOOLEAN : RemoveStream(swallowed)

Spec == Init /\ [][Next]_vars

\* StreamManager.remove_stream when pop() finds no session: return False.
RemoveMissing(stream_id) ==
  /\ stream_id \notin _sessions
  /\ remove_call' = Some([stream_id |-> stream_id, result |-> FALSE])
  /\ UNCHANGED <<writerVars, decryptVars, parserVars, managerVars, lockVars, origin, cfg, registered, response, selection, failed, inits, add_result, status, error, is_live,
                 decryptor, task, pc, stop_event, manifest, fresh, last_sequences, processed_numbers,
                 processed_set, writes, iter_failed, spawned, ended, stoppers>>

(***************************************************************************)
(* The manager with every call of its interface: add_stream once,          *)
(* remove_stream with the session's id or another one at any time, before  *)
(* and after the session is removed. mpd_url serves one manifest.          *)
(***************************************************************************)

InitManager ==
  /\ hls = None
  /\ disk = EmptyDisk
  /\ evicted = [dir |-> <<>>, gone |-> {}]
  /\ run = 0
  /\ ensure_call = None
  /\ \E m \in Manifests : origin = Some(m)
  /\ cfg = None
  /\ registered = FALSE
  /\ add_result = "none"
  /\ status = "initializing"
  /\ error = None
  /\ is_live = TRUE
  /\ decryptor = "none"
  /\ task = "none"
  /\ pc = "none"
  /\ stop_event = FALSE
  /\ manifest = None
  /\ fresh = [t \in Tracks |-> <<>>]
  /\ last_sequences = [t \in Tracks |-> None]
  /\ processed_numbers = [t \in Tracks |-> <<>>]
  /\ processed_set = [t \in Tracks |-> {}]
  /\ writes = [t \in Tracks |-> [n \in Numbers |-> 0]]
  /\ iter_failed = FALSE
  /\ spawned = 0
  /\ ended = 0
  /\ stoppers = [awaiting |-> 0, resumed |-> 0]
  /\ remove_call = None
  /\ response = None
  /\ selection = None
  /\ failed = [t \in Tracks |-> None]
  /\ inits = [t \in Tracks |-> None]
  /\ IdleDecryptor
  /\ IdleParser
  /\ IdleManager
  /\ IdleLock

NextManager ==
  \/ \E c \in Configs : AddStream(c)
  \/ Step
  \/ \E swallowed \in BOOLEAN : RemoveStream(swallowed)
  \/ \E stream_id \in Ids : RemoveMissing(stream_id)

SpecManager == InitManager /\ [][NextManager]_vars

(***************************************************************************)
(* A VOD session left to run: mpd_url serves one static manifest, nobody   *)
(* removes the stream. The event loop runs a task that can run (weak       *)
(* fairness of the loop test), and the manifest download, each init        *)
(* segment and each media segment succeed again and again when tried again *)
(* and again (strong fairness of the successful steps).                    *)
(***************************************************************************)

InitVod ==
  /\ hls = None
  /\ disk = EmptyDisk
  /\ evicted = [dir |-> <<>>, gone |-> {}]
  /\ run = 0
  /\ ensure_call = None
  /\ \E m \in Manifests :
       /\ ~m.is_live
       /\ m.segments["video"] # None
       /\ origin = Some(m)
  /\ cfg = None
  /\ registered = FALSE
  /\ add_result = "none"
  /\ status = "initializing"
  /\ error = None
  /\ is_live = TRUE
  /\ decryptor = "none"
  /\ task = "none"
  /\ pc = "none"
  /\ stop_event = FALSE
  /\ manifest = None
  /\ fresh = [t \in Tracks |-> <<>>]
  /\ last_sequences = [t \in Tracks |-> None]
  /\ processed_numbers = [t \in Tracks |-> <<>>]
  /\ processed_set = [t \in Tracks |-> {}]
  /\ writes = [t \in Tracks |-> [n \in Numbers |-> 0]]
  /\ iter_failed = FALSE
  /\ spawned = 0
  /\ ended = 0
  /\ stoppers = [awaiting |-> 0, resumed |-> 0]
  /\ remove_call = None
  /\ response = None
  /\ selection = None
  /\ failed = [t \in Tracks |-> None]
  /\ inits = [t \in Tracks |-> None]
  /\ IdleDecryptor
  /\ IdleParser
  /\ IdleManager
  /\ IdleLock

NextVod ==
  \/ \E c \in Configs : AddStream(c)
  \/ Step

SpecVod ==
  /\ InitVod
  /\ [][NextVod]_vars
  /\ WF_vars(LoopHead)
  /\ SF_vars(\E m \in Manifests : PollManifest(m))
  /\ \A track \in Tracks : SF_vars(FetchInit(track, "ok"))
  /\ \A track \in Tracks : SF_vars(ProcessSegment(track, "ok"))

(***************************************************************************)
(* One constructed session whose start() and stop() are called directly,   *)
(* any number of times and concurrently: a stop() call is suspended in     *)
(* "await self._task" while the cancelled task runs to its end, and other  *)
(* calls run in between. mpd_url serves one manifest.                      *)
(***************************************************************************)

MaxTasks == 2       \* start() creates at most MaxTasks pipeline tasks
MaxStoppers == 2    \* at most MaxStoppers stop() calls are suspended at a time

Running == task \in {"pending", "cancelling"}

\* start() without the test of lines 49-50.
startUnguarded ==
  LET b == build_decryptor(cfg[1])
  IN  IF b.ok
      THEN /\ decryptor' = b.kind
           /\ keys' = b.key_map
           /\ stop_event' = FALSE
           /\ status' = "starting"
           /\ task' = "pending"
           /\ pc' = "created"
           /\ manifest' = None
           /\ fresh' = [t \in Tracks |-> <<>>]
           /\ add_result' = "returned"
           /\ spawned' = spawned + 1
           /\ UNCHANGED <<writerVars, origin, cfg, registered, remove_call, response, selection, failed, inits, error, is_live, last_sequences,
                          processed_numbers, processed_set, writes, iter_failed, ended, stoppers,
                          dec_call, dec_result, parserVars, managerVars, lockVars>>
      ELSE /\ status' = "error"
           /\ error' = Some("Failed to initialise decryptor")
           /\ add_result' = "raised"
           /\ UNCHANGED <<writerVars, origin, cfg, registered, remove_call, response, selection, failed, inits, is_live, decryptor, task, pc, stop_event,
                          manifest, fresh, last_sequences, processed_numbers, processed_set, writes,
                          iter_failed, spawned, ended, stoppers, decryptVars, parserVars, managerVars, lockVars>>

\* StreamSession.start: return at once while the task is not done; else build
\* the decryptor, clear the stop event, set status starting and create the
\* task (whose locals are new), or set status error and re-raise.
start ==
  IF Running
  THEN UNCHANGED vars
  ELSE LET b == build_decryptor(cfg[1])
       IN  IF b.ok
           THEN /\ decryptor' = b.kind
                /\ keys' = b.key_map
                /\ stop_event' = FALSE
                /\ status' = "starting"
                /\ task' = "pending"
                /\ pc' = "created"
                /\ manifest' = None
                /\ fresh' = [t \in Tracks |-> <<>>]
                /\ add_result' = "returned"
                /\ spawned' = spawned + 1
                /\ UNCHANGED <<writerVars, origin, cfg, registered, remove_call, response, selection, failed, inits, error, is_live, last_sequences,
                               processed_numbers, processed_set, writes, iter_failed, ended, stoppers,
                               dec_call, dec_result, parserVars, managerVars, lockVars>>
           ELSE /\ status' = "error"
                /\ error' = Some("Failed to initialise decryptor")
                /\ add_result' = "raised"
                /\ UNCHANGED <<writerVars, origin, cfg, registered, remove_call, response, selection, failed, inits, is_live, decryptor, task, pc,
                               stop_event, manifest, fresh, last_sequences, processed_numbers,
                               processed_set, writes, iter_failed, spawned, ended, stoppers, decryptVars, parserVars, managerVars, lockVars>>

StartCall ==
  /\ cfg # None
  /\ Running \/ spawned < MaxTasks
  /\ start

\* StreamSession.stop up to its await: set the stop event; cancel the task and
\* wait for it when it is not done; with no task, or a task that is done, go
\* straight on to status stopped.
StopCall ==
  /\ cfg # None
  /\ stoppers.awaiting + stoppers.resumed < MaxStoppers
  /\ stop_event' = TRUE
  /\ IF Running
     THEN /\ task' = "cancelling"
          /\ stoppers' = [stoppers EXCEPT !.awaiting = @ + 1]
          /\ UNCHANGED status
     ELSE /\ status' = "stopped"
          /\ UNCHANGED <<task, stoppers>>
  /\ UNCHANGED <<writerVars, decryptVars, parserVars, managerVars, lockVars, origin, cfg, registered, remove_call, response, selection, failed, inits, add_result, error, is_live, decryptor,
                 pc, manifest, fresh, last_sequences, processed_numbers, processed_set, writes,
                 iter_failed, spawned, ended>>

\* The cancelled task runs: CancelledError is raised at the await it is
\* suspended in and ends the task (lines 203-204), or the wait_for of _sleep
\* returns normally and the loop ends by its test (lines 123, 211-212). The
\* stop() calls waiting for the task become runnable.
TaskCancelled(swallowed) ==
  /\ task = "cancelling"
  /\ swallowed => pc = "sleep"
  /\ task' = IF swallowed THEN "done" ELSE "cancelled"
  /\ pc' = IF swallowed THEN "returned" ELSE "cancelled"
  /\ status' = IF swallowed /\ status \notin {"error", "completed"} THEN "stopped" ELSE status
  /\ ended' = ended + 1
  /\ stoppers' = [awaiting |-> 0, resumed |-> stoppers.resumed + stoppers.awaiting]
  /\ UNCHANGED <<writerVars, decryptVars, parserVars, managerVars, lockVars, origin, cfg, registered, remove_call, response, selection, failed, inits, add_result, error, is_live, decryptor,
                 stop_event, manifest, fresh, last_sequences, processed_numbers, processed_set, writes,
                 iter_failed, spawned>>

\* StreamSession.stop after its await (line 79).
StopReturn ==
  /\ stoppers.resumed > 0
  /\ stoppers' = [stoppers EXCEPT !.resumed = @ - 1]
  /\ status' = "stopped"
  /\ UNCHANGED <<writerVars, decryptVars, parserVars, managerVars, lockVars, origin, cfg, registered, remove_call, response, selection, failed, inits, add_result, error, is_live, decryptor,
                 task, pc, stop_event, manifest, fresh, last_sequences, processed_numbers, processed_set,
                 writes, iter_failed, spawned, ended>>

InitCalls ==
  /\ hls = None
  /\ disk = EmptyDisk
  /\ evicted = [dir |-> <<>>, gone |-> {}]
  /\ run = 0
  /\ ensure_call = None
  /\ \E m \in Manifests :
       /\ m.segments["video"] # None
       /\ origin = Some(m)
  /\ \E c \in Configs : cfg = Some(c)
  /\ registered = FALSE
  /\ add_result = "none"
  /\ status = "initializing"
  /\ error = None
  /\ is_live = TRUE
  /\ decryptor = "none"
  /\ task = "none"
  /\ pc = "none"
  /\ stop_event = FALSE
  /\ manifest = None
  /\ fresh = [t \in Tracks |-> <<>>]
  /\ last_sequences = [t \in Tracks |-> None]
  /\ processed_numbers = [t \in Tracks |-> <<>>]
  /\ processed_set = [t \in Tracks |-> {}]
  /\ writes = [t \in Tracks |-> [n \in Numbers |-> 0]]
  /\ iter_failed = FALSE
  /\ spawned = 0
  /\ ended = 0
  /\ stoppers = [awaiting |-> 0, resumed |-> 0]
  /\ remove_call = None
  /\ response = None
  /\ selection = None
  /\ failed = [t \in Tracks |-> None]
  /\ inits = [t \in Tracks |-> None]
  /\ IdleDecryptor
  /\ IdleParser
  /\ IdleManager
  /\ IdleLock

NextCalls ==
  \/ StartCall
  \/ StopCall
  \/ \E swallowed \in BOOLEAN : TaskCancelled(swallowed)
  \/ StopReturn
  \/ Step

SpecCalls == InitCalls /\ [][NextCalls]_vars

(***************************************************************************)
(* server.py: serve_hls. Paths are tuples of components below "/". The     *)
(* file system holds the session's output directory, another directory     *)
(* beside it, and two symbolic links inside the session's directory, one   *)
(* to a directory inside it and one to the directory beside it.            *)
(***************************************************************************)

MaxPath == 3        \* a requested filename has 1..MaxPath components

Components == {"..", ".", "video", "master.m3u8", "index.m3u8", "link", "latest", "s1", "s2"}

Filenames == UNION {[1..n -> Components] : n \in 1..MaxPath}

Dirs ==
  { <<>>, <<"output">>, <<"output", "s1">>, <<"output", "s1", "video">>, <<"output", "s2">> }

Files ==
  { <<"output", "s1", "master.m3u8">>, <<"output", "s1", "video", "index.m3u8">>,
    <<"output", "s2", "master.m3u8">> }

Links ==
  [ p \in {<<"output", "s1", "link">>, <<"output", "s1", "latest">>} |->
      IF p[3] = "link" THEN <<"output", "s2">> ELSE <<"output", "s1", "video">> ]

IsPrefix(a, b) == Len(a) <= Len(b) /\ SubSeq(b, 1, Len(a)) = a

RECURSIVE Walk(_, _)
\* os.path.realpath: ".." drops the last component, a symbolic link is
\* replaced by its target
Walk(stack, rest) ==
  IF rest = <<>> THEN stack
  ELSE LET c == Head(rest)
           p == Append(stack, c)
       IN  IF c = "." THEN Walk(stack, Tail(rest))
           ELSE IF c = ".."
           THEN Walk(IF stack = <<>> THEN <<>> ELSE SubSeq(stack, 1, Len(stack) - 1), Tail(rest))
           ELSE IF p \in DOMAIN Links THEN Walk(Links[p], Tail(rest))
           ELSE Walk(p, Tail(rest))

realpath(path) == Walk(<<>>, path)

\* Path.resolve() that leaves the path as it is given.
resolveLexical(path) == path

\* Path.resolve()
resolve(path) == realpath(path)

\* PurePath.relative_to: the components after other, or ValueError (None)
relative_to(path, other) ==
  IF IsPrefix(other, path) THEN Some(SubSeq(path, Len(other) + 1, Len(path))) ELSE None

RECURSIVE normpath(_, _)
\* posixpath.normpath of a relative path: "." and "name/.." are dropped
normpath(done, rest) ==
  IF rest = <<>> THEN done
  ELSE LET c == Head(rest)
       IN  IF c = "." THEN normpath(done, Tail(rest))
           ELSE IF c = ".." /\ done # <<>> /\ done[Len(done)] # ".."
           THEN normpath(SubSeq(done, 1, Len(done) - 1), Tail(rest))
           ELSE normpath(Append(done, c), Tail(rest))

\* quart.send_from_directory: safe_join refuses a name that leads out of the
\* directory in its spelling, then the file the name leads to is opened.
send_from_directory(directory, file_name) ==
  LET n == normpath(<<>>, file_name)
  IN  IF n # <<>> /\ n[1] = ".." THEN [code |-> 404, file |-> None]
      ELSE IF realpath(directory \o n) \notin Files THEN [code |-> 404, file |-> None]
      ELSE [code |-> 200, file |-> Some(realpath(directory \o n))]

\* serve_hls (lines 572-603)
serve_hls(stream_id, filename) ==
  LET output_path == get_output_path(stream_id)
  IN  IF output_path = None \/ realpath(output_path[1]) \notin Dirs
      THEN [code |-> 404, file |-> None]
      ELSE LET requested_path == resolve(output_path[1] \o filename)
               output_root == resolve(output_path[1])
               relative == relative_to(requested_path, output_root)
           IN  IF relative = None THEN [code |-> 404, file |-> None]
               ELSE IF realpath(requested_path) \notin Files THEN [code |-> 404, file |-> None]
               ELSE send_from_directory(output_root, relative[1])

\* One request GET /hls/<stream_id>/<filename>; a behaviour follows one
\* request, made at any moment.
ServeHls(stream_id, filename) ==
  /\ response = None
  /\ response' = Some([stream_id |-> stream_id, filename |-> filename,
                       answer |-> serve_hls(stream_id, filename)])
  /\ UNCHANGED <<writerVars, decryptVars, parserVars, managerVars, lockVars, origin, cfg, registered, remove_call, selection, failed, inits, add_result, status, error,
                 is_live, decryptor, task, pc, stop_event, manifest, fresh, last_sequences,
                 processed_numbers, processed_set, writes, iter_failed, spawned, ended, stoppers>>

NextServe ==
  \/ \E c \in Configs : AddStream(c)
  \/ \E swallowed \in BOOLEAN : RemoveStream(swallowed)
  \/ \E stream_id \in Ids, filename \in Filenames : ServeHls(stream_id, filename)

\* The server from its start: no stream yet; streams are added and removed
\* and files requested in any order.
SpecServe == Init /\ [][NextServe]_vars

(***************************************************************************)
(* The selection of representations. A manifest lists up to MaxReps        *)
(* representations, each video, audio or both, with a bandwidth and one    *)
(* segment; the id of a representation is its place in the list. Every     *)
(* poll may see another list.                                              *)
(***************************************************************************)

MaxReps == 2        \* a manifest lists 0..MaxReps representations

RepresentationLists ==
  LET bodies == {b \in [bandwidth : 0..MaxBandwidth, is_video : BOOLEAN, is_audio : BOOLEAN] :
                   b.is_video \/ b.is_audio}
      rep(i, b) == [ id |-> i, bandwidth |-> b.bandwidth, is_video |-> b.is_video,
                     is_audio |-> b.is_audio, segments |-> <<5>> ]
  IN  UNION { {[i \in 1..n |-> rep(i, f[i])] : f \in [1..n -> bodies]} : n \in 0..MaxReps }

\* reps[0] in place of max(reps, key=..): the first of the kind
FirstListed(reps) == reps[1]

\* max(reps, key=lambda rep: rep.bandwidth or 0): the first of the largest
FirstMax(reps) ==
  reps[CHOOSE i \in 1..Len(reps) :
         /\ \A j \in 1..Len(reps) : reps[j].bandwidth <= reps[i].bandwidth
         /\ \A j \in 1..(i - 1) : reps[j].bandwidth < reps[i].bandwidth]

\* StreamSession._select_representations
_select_representations(representations, representation_id) ==
  LET isVideo(r) == r.is_video
      isAudio(r) == r.is_audio
      hasId(r) == representation_id # None /\ r.id = representation_id[1]
      video_reps == SelectSeq(representations, isVideo)
      audio_reps == SelectSeq(representations, isAudio)
  IN  [ video |-> IF representation_id # None
                  THEN IF SelectSeq(representations, hasId) # <<>>
                       THEN Some(Head(SelectSeq(representations, hasId)))
                       ELSE None
                  ELSE IF video_reps # <<>> THEN Some(FirstMax(video_reps)) ELSE None,
        audio |-> IF audio_reps # <<>> THEN Some(FirstMax(audio_reps)) ELSE None ]

\* Configs without key material, with and without a representation_id.
SelectConfigs ==
  { [ key |-> None, kid |-> None, key_map |-> None, tool_found |-> FALSE, window_size |-> 2,
      history_size |-> 1, representation_id |-> r ] : r \in {None, Some(2)} }

\* The manifest is downloaded and parsed and the representations are selected
\* (lines 139-160); then as PollManifest.
PollRepresentations(representations, live) ==
  /\ task = "pending"
  /\ pc = "mpd"
  /\ LET sel == _select_representations(representations, cfg[1].representation_id)
         segs(r) == IF r = None THEN None ELSE Some(r[1].segments)
         m == [ is_live |-> live,
                segments |-> [t \in Tracks |-> IF t = "video" THEN segs(sel.video) ELSE segs(sel.audio)] ]
         s1 == [Cur EXCEPT !.is_live = live, !.manifest = Some(m),
                           !.hls = IF hls = None
                                   THEN Some(MultiVariantHLSWriter(live, cfg[1].window_size))
                                   ELSE hls,
                           !.selection = Some([ representations |-> representations,
                                                video |-> sel.video, audio |-> sel.audio ])]
     IN  IF sel.video = None /\ sel.audio = None
         THEN Commit(_sleep(_record_error(s1, "No matching video or audio representation in manifest")))
         ELSE Commit(EnsureVideo(s1))

NextSelect ==
  \/ \E c \in SelectConfigs : AddStream(c)
  \/ LoopHead
  \/ \E representations \in RepresentationLists, live \in BOOLEAN :
       PollRepresentations(representations, live)
  \/ \E track \in Tracks : FetchInit(track, "ok")
  \/ \E track \in Tracks : ProcessSegment(track, "ok")

SpecSelect == Init /\ [][NextSelect]_vars

(***************************************************************************)
(* dash_parser.py: the parser driven directly. An attribute value is the   *)
(* sequence of its words, an absent attribute the empty sequence (the code *)
(* reads every attribute as "get(..) or ''").                              *)
(***************************************************************************)

\* str.lower on the words that occur
LowerWord(word) ==
  CASE word = "VIDEO" -> "video"
    [] word = "Audio" -> "audio"
    [] OTHER -> word

lower(value) == [i \in DOMAIN value |-> LowerWord(value[i])]

\* key in value
Contains(value, key) == \E i \in DOMAIN value : value[i] = key

MimeTypes ==
  { <<>>, <<"video", "/", "mp4">>, <<"audio", "/", "mp4">>, <<"VIDEO", "/", "mp4">>,
    <<"application", "/", "mp4">>, <<"text", "/", "vtt">> }

ContentTypes == { <<>>, <<"video">>, <<"audio">>, <<"Audio">>, <<"text">> }

Elements == [mimeType : MimeTypes, contentType : ContentTypes]

\* DashParser._skip_adaptation_set
_skip_adaptation_set(adaptation_set) ==
  LET content_type == lower(adaptation_set.contentType)
      mime_type == lower(adaptation_set.mimeType)
  IN  \/ content_type # <<>> /\ content_type \notin {<<"audio">>, <<"video">>}
      \/ \E text_key \in {"text", "ttml", "vtt", "srt"} : Contains(mime_type, text_key)

\* DashParser._classify_track
_classify_track(adaptation_set, representation) ==
  LET mime_candidates == {lower(representation.mimeType), lower(adaptation_set.mimeType)}
      content_candidates == {lower(representation.contentType), lower(adaptation_set.contentType)}
  IN  [ is_video |-> \/ \E value \in mime_candidates : Contains(value, "video")
                     \/ \E value \in content_candidates : value = <<"video">>,
        is_audio |-> \/ \E value \in mime_candidates : Contains(value, "audio")
                     \/ \E value \in content_candidates : value = <<"audio">> ]

\* DashParser.parse on a manifest of one adaptation set with one
\* representation that has an id and segments: the list of representations
\* of the manifest, here with their classification only.
parse(adaptation_set, representation) ==
  IF _skip_adaptation_set(adaptation_set)
  THEN <<>>
  ELSE LET track == _classify_track(adaptation_set, representation)
       IN  IF ~track.is_video /\ ~track.is_audio THEN <<>> ELSE <<track>>

Parse(adaptation_set, representation) ==
  /\ parsed' = Some([ call |-> "parse", adaptation_set |-> adaptation_set,
                      representation |-> representation,
                      representations |-> parse(adaptation_set, representation) ])
  /\ UNCHANGED <<writerVars, sessionVars, decryptVars, managerVars, lockVars>>

(***************************************************************************)
(* SegmentTemplate with a SegmentTimeline. The template is what            *)
(* _resolve_segment_template merged; media is a non-empty pattern.         *)
(***************************************************************************)

MaxTimeline == 2    \* a SegmentTimeline holds 0..MaxTimeline S elements
MaxRepeat == 2      \* r is -1..MaxRepeat

MAX_TIMELINE_REPEAT == 30

\* The attributes of a SegmentTemplate as written in the manifest.
TemplateAttributes ==
  [ timescale : {0, 2}, duration : {None, Some(1)}, startNumber : {1, 5},
    presentationTimeOffset : {0, 1} ]

\* DashParser._resolve_segment_template, the fields the expansion reads
_resolve_segment_template(attributes) ==
  [ timescale |-> IF attributes.timescale > 0 THEN attributes.timescale ELSE 1,
    duration |-> attributes.duration,
    start_number |-> attributes.startNumber,
    presentation_time_offset |-> attributes.presentationTimeOffset ]

\* The S elements: t and d present or not, r present (absent reads as 0).
SElements == [t : {None, Some(0), Some(3)}, d : {None, Some(0), Some(2)}, r : (-1)..MaxRepeat]

Timelines == UNION {[1..n -> SElements] : n \in 0..MaxTimeline}

\* The loop body of _parse_segment_timeline for the element at place index
\* (lines 433-468); st holds the locals number, current_time, last_duration
\* and segments. A segment records the S element it comes from.
TimelineElement(st, s, index, template, live) ==
  LET timescale == template.timescale
      current_time == IF s.t # None THEN s.t[1] ELSE st.current_time
      known == s.d # None \/ (st.last_duration # None /\ st.last_duration[1] # 0)
      duration_units == IF s.d # None THEN s.d[1] ELSE st.last_duration[1]
      last_duration == IF s.d # None /\ s.d[1] > 0 THEN Some(s.d[1]) ELSE st.last_duration
      repeat == IF s.r < 0 THEN (IF live THEN MAX_TIMELINE_REPEAT ELSE 0) ELSE s.r
      emitted == [k \in 1..(repeat + 1) |->
                    [ number |-> st.number + (k - 1),
                      time |-> current_time + (k - 1) * duration_units
                               - template.presentation_time_offset,
                      duration |-> <<duration_units, timescale>>,
                      element |-> index ]]
  IN  IF ~known
      THEN [st EXCEPT !.current_time = current_time]
      ELSE IF duration_units <= 0
      THEN [st EXCEPT !.current_time = current_time, !.last_duration = last_duration]
      ELSE [ number |-> st.number + repeat + 1,
             current_time |-> current_time + (repeat + 1) * duration_units,
             last_duration |-> last_duration,
             segments |-> st.segments \o emitted ]

RECURSIVE TimelineLoop(_, _, _, _, _)
TimelineLoop(st, timeline, index, template, live) ==
  IF index > Len(timeline)
  THEN st
  ELSE TimelineLoop(TimelineElement(st, timeline[index], index, template, live),
                    timeline, index + 1, template, live)

\* the numbering starts at 1 whatever startNumber says
TimelineFromOne(template, timeline, live) ==
  TimelineLoop([ number |-> 1,
                 current_time |-> template.presentation_time_offset,
                 last_duration |-> template.duration,
                 segments |-> <<>> ],
               timeline, 1, template, live).segments

\* DashParser._parse_segment_timeline
_parse_segment_timeline(template, timeline, live) ==
  TimelineLoop([ number |-> template.start_number,
                 current_time |-> template.presentation_time_offset,
                 last_duration |-> template.duration,
                 segments |-> <<>> ],
               timeline, 1, template, live).segments

ParseTimeline(attributes, timeline, live) ==
  /\ parsed' = Some([ call |-> "_parse_segment_timeline", attributes |-> attributes,
                      timeline |-> timeline, is_live |-> live,
                      segments |-> _parse_segment_timeline(_resolve_segment_template(attributes),
                                                           timeline, live) ])
  /\ UNCHANGED <<writerVars, sessionVars, decryptVars, managerVars, lockVars>>

(***************************************************************************)
(* SegmentTemplate with a duration and no timeline. The media pattern is   *)
(* "$Number%0Wd$" (width 0: "$Number$"); durations are whole seconds and   *)
(* the quotients the code computes in floating point are exact on the      *)
(* values used here.                                                       *)
(***************************************************************************)

MaxWidth == 2       \* the W of $Number%0Wd$ is 0..MaxWidth

FALLBACK_SEGMENT_COUNT == 200

DurationAttributes ==
  [ timescale : {0, 1, 24}, duration : {None, Some(0), Some(3), Some(96)}, startNumber : {1, 9},
    presentationTimeOffset : {0} ]

\* period_duration or media_duration, in seconds; None when the manifest gives neither
TotalDurations == {None, Some(0), Some(1), Some(8)}

\* str(number) for number >= 0, as the sequence of its decimal digits
RECURSIVE str(_)
str(number) == IF number < 10 THEN <<number>> ELSE Append(str(number \div 10), number % 10)

\* value_str.rjust(width, "0")
RECURSIVE rjust(_, _)
rjust(value_str, width) ==
  IF Len(value_str) >= width THEN value_str ELSE rjust(<<0>> \o value_str, width)

\* DashParser._fill_template on the pattern "$Number%0Wd$"
_fill_template(width, number) ==
  IF width > 0 THEN rjust(str(number), width) ELSE str(number)

\* math.ceil(a / b) for a >= 0 and b > 0
ceil(a, b) == (a + b - 1) \div b

\* DashParser._parse_segment_template without a timeline (lines 376-405)
_parse_segment_template(template, width, total_duration) ==
  IF template.duration = None \/ template.duration[1] = 0
  THEN <<>>
  ELSE LET duration_units == template.duration[1]
           timescale == template.timescale
           \* total_duration / (duration_units / timescale)
           estimate == ceil(total_duration[1] * timescale, duration_units)
           num_segments == IF total_duration # None /\ total_duration[1] # 0 /\ duration_units > 0
                           THEN IF estimate > 1 THEN estimate ELSE 1
                           ELSE FALLBACK_SEGMENT_COUNT
       IN  [offset \in 1..num_segments |->
              [ number |-> template.start_number + (offset - 1),
                name |-> _fill_template(width, template.start_number + (offset - 1)),
                duration |-> <<duration_units, timescale>> ]]

ParseTemplate(attributes, width, total_duration) ==
  /\ parsed' = Some([ call |-> "_parse_segment_template", attributes |-> attributes,
                      width |-> width, total_duration |-> total_duration,
                      segments |-> _parse_segment_template(_resolve_segment_template(attributes),
                                                           width, total_duration) ])
  /\ UNCHANGED <<writerVars, sessionVars, decryptVars, managerVars, lockVars>>

\* One call of the parser in a behaviour.
NextParser ==
  \/ /\ parsed = None
     /\ \E adaptation_set, representation \in Elements : Parse(adaptation_set, representation)
  \/ /\ parsed = None
     /\ \E attributes \in TemplateAttributes, timeline \in Timelines, live \in BOOLEAN :
          ParseTimeline(attributes, timeline, live)
  \/ /\ parsed = None
     /\ \E attributes \in DurationAttributes, width \in 0..MaxWidth, total_duration \in TotalDurations :
          ParseTemplate(attributes, width, total_duration)

SpecParser == Init /\ [][NextParser]_vars

(***************************************************************************)
(* manager.py with several streams: what matters here is the directory of  *)
(* each session and the files the session writes below it. Ids stands for  *)
(* the uuid4 values, which never repeat.                                   *)
(***************************************************************************)

base_output_dir == <<"output">>

\* StreamConfig.output_dir as POST /streams accepts it: none, or any path
OutputDirs ==
  {None, Some(<<"srv", "out">>), Some(<<"srv", "out", "audio">>), Some(<<"output", "s2">>)}

\* The files a MultiVariantHLSWriter writes, relative to its output_dir: the
\* master playlist, the video variant (in output_dir itself) and the audio
\* variant (in output_dir / "audio").
SessionFiles ==
  { <<"master.m3u8">>, <<"index.m3u8">>, <<"init.mp4">>, <<"audio", "index.m3u8">> }

\* StreamSession.__init__, line 28
output_dir(stream_id, config_output_dir) ==
  IF config_output_dir # None THEN config_output_dir[1] ELSE base_output_dir \o <<stream_id>>

\* StreamManager.add_stream with a fresh id
AddStreamIn(stream_id, config_output_dir) ==
  /\ sessions[stream_id] = None
  /\ sessions' = [sessions EXCEPT ![stream_id] =
                    Some([ output_dir |-> output_dir(stream_id, config_output_dir),
                           written |-> {} ])]
  /\ UNCHANGED <<writerVars, sessionVars, decryptVars, parserVars, lockVars>>

\* The session's writer writes one of its files.
SessionWrites(stream_id, file) ==
  /\ sessions[stream_id] # None
  /\ sessions' = [sessions EXCEPT ![stream_id] =
                    Some([sessions[stream_id][1] EXCEPT
                            !.written = @ \cup {sessions[stream_id][1].output_dir \o file}])]
  /\ UNCHANGED <<writerVars, sessionVars, decryptVars, parserVars, lockVars>>

\* StreamManager.remove_stream: the session leaves the registry
RemoveStreamOf(stream_id) ==
  /\ sessions[stream_id] # None
  /\ sessions' = [sessions EXCEPT ![stream_id] = None]
  /\ UNCHANGED <<writerVars, sessionVars, decryptVars, parserVars, lockVars>>

NextStreams ==
  \/ \E stream_id \in Ids, config_output_dir \in OutputDirs : AddStreamIn(stream_id, config_output_dir)
  \/ \E stream_id \in Ids, file \in SessionFiles : SessionWrites(stream_id, file)
  \/ \E stream_id \in Ids : RemoveStreamOf(stream_id)

SpecStreams == Init /\ [][NextStreams]_vars

(***************************************************************************)
(* _collect_new_segments called directly: the session has some history of  *)
(* processed numbers per track, and is handed a manifest segment list.     *)
(***************************************************************************)

MaxCollect == 2     \* the segment list handed over holds 0..MaxCollect segments

CollectNumbers == 5..7

\* The histories a track can have: no number twice, and the last sequence is
\* the number marked last (the end of the queue); older numbers may have
\* been dropped from the queue.
Histories ==
  LET queues == {q \in UNION {[1..n -> CollectNumbers] : n \in 0..2} :
                   \A i, j \in 1..Len(q) : i # j => q[i] # q[j]}
  IN  {[ numbers |-> q, set |-> {q[i] : i \in 1..Len(q)},
         last_sequence |-> IF q = <<>> THEN None ELSE Some(q[Len(q)]) ] : q \in queues}

\* Segment lists in any order, a segment with or without a number; url tells
\* the segments of a list apart.
SegmentLists ==
  UNION { {[i \in 1..n |-> [url |-> i, number |-> f[i]]] :
             f \in [1..n -> {None} \cup {Some(k) : k \in CollectNumbers}]} : n \in 0..MaxCollect }

\* StreamSession._collect_new_segments on DashSegment objects: a segment
\* without a number is skipped (lines 319-320), the others are tested one by
\* one as above.
CollectSegments(segments, set, last_sequence) ==
  LET isFresh(segment) ==
        /\ segment.number # None
        /\ _collect_new_segments(<<segment.number[1]>>, set, last_sequence) # <<>>
  IN  SelectSeq(segments, isFresh)

InitCollect ==
  /\ hls = None
  /\ disk = EmptyDisk
  /\ evicted = [dir |-> <<>>, gone |-> {}]
  /\ run = 0
  /\ ensure_call = None
  /\ origin = None
  /\ cfg = None
  /\ registered = FALSE
  /\ add_result = "none"
  /\ status = "running"
  /\ error = None
  /\ is_live = TRUE
  /\ decryptor = "plaintext"
  /\ task = "pending"
  /\ pc = "collect"
  /\ stop_event = FALSE
  /\ manifest = None
  /\ fresh = [t \in Tracks |-> <<>>]
  /\ \E h \in [Tracks -> Histories] :
       /\ last_sequences = [t \in Tracks |-> h[t].last_sequence]
       /\ processed_numbers = [t \in Tracks |-> h[t].numbers]
       /\ processed_set = [t \in Tracks |-> h[t].set]
  /\ writes = [t \in Tracks |-> [n \in Numbers |-> 0]]
  /\ iter_failed = FALSE
  /\ spawned = 1
  /\ ended = 0
  /\ stoppers = [awaiting |-> 0, resumed |-> 0]
  /\ remove_call = None
  /\ response = None
  /\ selection = None
  /\ failed = [t \in Tracks |-> None]
  /\ inits = [t \in Tracks |-> None]
  /\ IdleDecryptor
  /\ IdleParser
  /\ IdleManager
  /\ IdleLock

\* video_new_segments = self._collect_new_segments(video_rep.segments, track="video")
\* or the same for audio (lines 165-168); manifest keeps the arguments.
CollectCall(track, segments) ==
  /\ manifest' = Some([track |-> track, segments |-> segments])
  /\ fresh' = [fresh EXCEPT ![track] =
                 CollectSegments(segments, processed_set[track], last_sequences[track])]
  /\ UNCHANGED <<writerVars, decryptVars, parserVars, managerVars, lockVars, origin, cfg, registered, add_result,
                 status, error, is_live, decryptor, task, pc, stop_event, last_sequences,
                 processed_numbers, processed_set, writes, iter_failed, spawned, ended, stoppers,
                 remove_call, response, selection, failed, inits>>

\* One call in a behaviour.
NextCollect ==
  /\ manifest = None
  /\ \E track \in Tracks, segments \in SegmentLists : CollectCall(track, segments)

SpecCollect == InitCollect /\ [][NextCollect]_vars

(***************************************************************************)
(* A session whose polls select among changing representation lists while  *)
(* the init segment and segment downloads and decryptions may fail.        *)
(***************************************************************************)

\* The representation lists of RepresentationLists with one bandwidth: which
\* representation is selected changes with the order and the kinds listed.
InitLists == {reps \in RepresentationLists : \A i \in 1..Len(reps) : reps[i].bandwidth = 1}

\* SelectConfigs and a config with key material and mp4decrypt on PATH.
InitConfigs ==
  SelectConfigs \cup
    { [ key |-> Some(CHOOSE k \in GoodKeys : k.id = "k1"), kid |-> <<"a", "b">>, key_map |-> None,
        tool_found |-> TRUE, window_size |-> 2, history_size |-> 1, representation_id |-> None ] }

NextInits ==
  \/ \E c \in InitConfigs : AddStream(c)
  \/ LoopHead
  \/ \E representations \in InitLists, live \in BOOLEAN :
       PollRepresentations(representations, live)
  \/ \E track \in Tracks, outcome \in Outcomes : FetchInit(track, outcome)
  \/ \E track \in Tracks, outcome \in Outcomes : ProcessSegment(track, outcome)

SpecInits == Init /\ [][NextInits]_vars

(***************************************************************************)
(* The manager's lock. Callers call add_stream, remove_stream,             *)
(* list_streams or the session's stop() once each, concurrently with each  *)
(* other and with the pipeline task. add_stream and remove_stream run      *)
(* under "async with self._lock"; remove_stream holds the lock while its   *)
(* stop() is suspended in "await self._task". mpd_url serves one live      *)
(* manifest.                                                               *)
(***************************************************************************)

\* The configs the add_stream calls use: one that starts, one whose key makes
\* build_decryptor raise.
LockConfigs ==
  { c \in Configs : c.history_size = 1 /\ c.kid # None /\ c.tool_found /\ c.key \in {None, Some(ShortKey)} }
    \cup { c \in Configs : c.history_size = 1 /\ c.key = None }

\* asyncio.Lock.acquire: taken at once when it is free and nobody waits,
\* else the caller joins the queue of waiters.
acquire(l, c) ==
  IF ~l.locked /\ l.waiters = <<>>
  THEN [l EXCEPT !.locked = TRUE]
  ELSE [l EXCEPT !.waiters = Append(@, c)]

\* release() leaving the lock held.
ReleaseKeepsLock(l) == l

\* asyncio.Lock.release, at the end of the "async with" block however it is left.
release(l) == [l EXCEPT !.locked = FALSE]

\* A caller enters add_stream or remove_stream and reaches "async with self._lock".
ManagerCall(c, op, arg) ==
  /\ calls[c].pc = "idle"
  /\ lock' = acquire(lock, c)
  /\ calls' = [calls EXCEPT ![c] = [ op |-> op, arg |-> arg, waited |-> ~lock'.locked \/ lock.locked,
                                     pc |-> IF lock.locked \/ lock.waiters # <<>>
                                            THEN "waiting" ELSE "locked" ]]
  /\ UNCHANGED <<writerVars, sessionVars, decryptVars, parserVars, managerVars>>

\* The first waiter is woken by release() and takes the lock.
LockAcquired(c) ==
  /\ calls[c].pc = "waiting"
  /\ ~lock.locked
  /\ lock.waiters # <<>> /\ Head(lock.waiters) = c
  /\ lock' = [locked |-> TRUE, waiters |-> Tail(lock.waiters)]
  /\ calls' = [calls EXCEPT ![c].pc = "locked"]
  /\ UNCHANGED <<writerVars, sessionVars, decryptVars, parserVars, managerVars>>

\* add_stream under the lock (manager.py 43-46): the session is constructed,
\* registered and started; start() has no await, and the lock is released
\* when start() returns or raises. The pipeline of the first session is
\* followed; a later add_stream registers a further session in sessions.
LockedAdd(c) ==
  /\ calls[c].pc = "locked" /\ calls[c].op = "add"
  /\ lock' = release(lock)
  /\ LET b == build_decryptor(calls[c].arg[1])
     IN  /\ calls' = [calls EXCEPT ![c].pc = IF b.ok THEN "returned" ELSE "raised"]
         /\ IF cfg = None
            THEN /\ cfg' = calls[c].arg
                 /\ registered' = TRUE
                 /\ IF b.ok
                    THEN /\ decryptor' = b.kind
                         /\ keys' = b.key_map
                         /\ stop_event' = FALSE
                         /\ status' = "starting"
                         /\ task' = "pending"
                         /\ pc' = "created"
                         /\ add_result' = "returned"
                         /\ spawned' = spawned + 1
                         /\ UNCHANGED error
                    ELSE /\ status' = "error"
                         /\ error' = Some("Failed to initialise decryptor")
                         /\ add_result' = "raised"
                         /\ UNCHANGED <<decryptor, keys, stop_event, task, pc, spawned>>
                 /\ UNCHANGED sessions
            ELSE /\ sessions' = [sessions EXCEPT !["s2"] =
                                   Some([output_dir |-> output_dir("s2", None), written |-> {}])]
                 /\ UNCHANGED <<cfg, registered, decryptor, keys, stop_event, status, task, pc,
                                add_result, spawned, error>>
  /\ UNCHANGED <<writerVars, origin, remove_call, response, selection, failed, inits, is_live,
                 manifest, fresh, last_sequences, processed_numbers, processed_set, writes,
                 iter_failed, dec_call, dec_result, parserVars, ended, stoppers>>

\* remove_stream under the lock (manager.py 62-68): pop the session; when
\* there is one, stop() it: set the stop event and, while the task is not
\* done, cancel it and await it with the lock held; else return False.
LockedRemove(c) ==
  /\ calls[c].pc = "locked" /\ calls[c].op = "remove"
  /\ IF calls[c].arg = Some(SessionId) /\ registered
     THEN /\ registered' = FALSE
          /\ stop_event' = TRUE
          /\ IF Running
             THEN /\ task' = "cancelling"
                  /\ stoppers' = [stoppers EXCEPT !.awaiting = @ + 1]
                  /\ calls' = [calls EXCEPT ![c].pc = "awaiting"]
                  /\ UNCHANGED <<status, lock>>
             ELSE /\ status' = "stopped"
                  /\ calls' = [calls EXCEPT ![c].pc = "returned"]
                  /\ lock' = release(lock)
                  /\ UNCHANGED <<task, stoppers>>
          /\ UNCHANGED sessions
     ELSE /\ sessions' = IF calls[c].arg = Some("s2")
                         THEN [sessions EXCEPT !["s2"] = None] ELSE sessions
          /\ calls' = [calls EXCEPT ![c].pc = "returned"]
          /\ lock' = release(lock)
          /\ UNCHANGED <<registered, stop_event, task, stoppers, status>>
  /\ UNCHANGED <<writerVars, decryptVars, parserVars, origin, cfg, remove_call, response, selection,
                 failed, inits, add_result, error, is_live, decryptor, pc, manifest, fresh,
                 last_sequences, processed_numbers, processed_set, writes, iter_failed, spawned, ended>>

\* session.stop() called on the session directly, without the manager
\* (session.py 70-79), up to its await.
StopDirect(c) ==
  /\ calls[c].pc = "idle"
  /\ cfg # None
  /\ stop_event' = TRUE
  /\ IF Running
     THEN /\ task' = "cancelling"
          /\ stoppers' = [stoppers EXCEPT !.awaiting = @ + 1]
          /\ calls' = [calls EXCEPT ![c] = [op |-> "stop", arg |-> None, waited |-> FALSE, pc |-> "awaiting"]]
          /\ UNCHANGED status
     ELSE /\ status' = "stopped"
          /\ calls' = [calls EXCEPT ![c] = [op |-> "stop", arg |-> None, waited |-> FALSE, pc |-> "returned"]]
          /\ UNCHANGED <<task, stoppers>>
  /\ UNCHANGED <<writerVars, decryptVars, parserVars, managerVars, lock, origin, cfg, registered,
                 remove_call, response, selection, failed, inits, add_result, error, is_live,
                 decryptor, pc, manifest, fresh, last_sequences, processed_numbers, processed_set,
                 writes, iter_failed, spawned, ended>>

\* stop() after its await (session.py 79), and for remove_stream the end of
\* the "async with" block.
AwaitReturns(c) ==
  /\ calls[c].pc = "awaiting"
  /\ stoppers.resumed > 0
  /\ stoppers' = [stoppers EXCEPT !.resumed = @ - 1]
  /\ status' = "stopped"
  /\ calls' = [calls EXCEPT ![c].pc = "returned"]
  /\ lock' = IF calls[c].op = "remove" THEN release(lock) ELSE lock
  /\ UNCHANGED <<writerVars, decryptVars, parserVars, managerVars, origin, cfg, registered,
                 remove_call, response, selection, failed, inits, add_result, error, is_live,
                 decryptor, task, pc, stop_event, manifest, fresh, last_sequences,
                 processed_numbers, processed_set, writes, iter_failed, spawned, ended>>

\* list_streams (manager.py 83-96): no lock, no suspension.
ListStreams(c) ==
  /\ calls[c].pc = "idle"
  /\ calls' = [calls EXCEPT ![c] = [op |-> "list", arg |-> None, waited |-> FALSE, pc |-> "returned"]]
  /\ UNCHANGED <<writerVars, sessionVars, decryptVars, parserVars, managerVars, lock>>

InitLock ==
  /\ hls = None
  /\ disk = EmptyDisk
  /\ evicted = [dir |-> <<>>, gone |-> {}]
  /\ run = 0
  /\ ensure_call = None
  /\ origin = Some([is_live |-> TRUE, segments |-> [video |-> Some(<<5>>), audio |-> None]])
  /\ cfg = None
  /\ registered = FALSE
  /\ add_result = "none"
  /\ status = "initializing"
  /\ error = None
  /\ is_live = TRUE
  /\ decryptor = "none"
  /\ task = "none"
  /\ pc = "none"
  /\ stop_event = FALSE
  /\ manifest = None
  /\ fresh = [t \in Tracks |-> <<>>]
  /\ last_sequences = [t \in Tracks |-> None]
  /\ processed_numbers = [t \in Tracks |-> <<>>]
  /\ processed_set = [t \in Tracks |-> {}]
  /\ writes = [t \in Tracks |-> [n \in Numbers |-> 0]]
  /\ iter_failed = FALSE
  /\ spawned = 0
  /\ ended = 0
  /\ stoppers = [awaiting |-> 0, resumed |-> 0]
  /\ remove_call = None
  /\ response = None
  /\ selection = None
  /\ failed = [t \in Tracks |-> None]
  /\ inits = [t \in Tracks |-> None]
  /\ IdleDecryptor
  /\ IdleParser
  /\ IdleManager
  /\ IdleLock

NextLock ==
  \/ \E c \in Callers, config \in LockConfigs : ManagerCall(c, "add", Some(config))
  \/ \E c \in Callers, stream_id \in Ids : ManagerCall(c, "remove", Some(stream_id))
  \/ \E c \in Callers : LockAcquired(c)
  \/ \E c \in Callers : LockedAdd(c)
  \/ \E c \in Callers : LockedRemove(c)
  \/ \E c \in Callers : StopDirect(c)
  \/ \E c \in Callers : AwaitReturns(c)
  \/ \E c \in Callers : ListStreams(c)
  \/ \E swallowed \in BOOLEAN : TaskCancelled(swallowed)
  \/ Step

\* The event loop runs every coroutine that can run: the cancelled task, a
\* woken waiter, a caller holding the lock, a stop() whose task has ended.
SpecLock ==
  /\ InitLock
  /\ [][NextLock]_vars
  /\ WF_vars(\E swallowed \in BOOLEAN : TaskCancelled(swallowed))
  /\ \A c \in Callers : WF_vars(LockAcquired(c))
  /\ \A c \in Callers : WF_vars(LockedAdd(c))
  /\ \A c \in Callers : WF_vars(LockedRemove(c))
  /\ \A c \in Callers : WF_vars(AwaitReturns(c))

(***************************************************************************)
(* Claims about the window writer (under SpecWriter).                      *)
(***************************************************************************)

\* The #EXTINF lines of the media playlist written for a configured track.
ExtinfCount(name) ==
  IF DirOf(name).playlist = None THEN 0 ELSE Len(DirOf(name).playlist[1].extinf)

\* C2 as stated: in live mode, for every configured window_size W, a track's
\* window and its written media playlist hold at most W entries.
C2_WindowAtMostW ==
  \A name \in Tracks :
    (Configured(name) /\ hls[1].is_live) =>
      /\ Len(Window(name)) <= hls[1].window_size
      /\ ExtinfCount(name) <= hls[1].window_size

\* C2 amended: in live mode, for every configured window_size W >= 1, a track's
\* window and its written media playlist hold at most W entries (window_size 0
\* switches eviction off).
C2_WindowAtMostPositiveW ==
  \A name \in Tracks :
    (Configured(name) /\ hls[1].is_live /\ hls[1].window_size >= 1) =>
      /\ Len(Window(name)) <= hls[1].window_size
      /\ ExtinfCount(name) <= hls[1].window_size

\* A live window that is full right after an eviction.
C2_Witness ==
  \E name \in Tracks :
    /\ Configured(name) /\ hls[1].is_live /\ hls[1].window_size = MaxWindow
    /\ Len(Window(name)) = MaxWindow /\ ExtinfCount(name) = MaxWindow
    /\ evicted.gone # {}

\* C3: in live mode the files of the entries the last add_segment evicted are
\* absent from the track's directory; after adding 1..k with window_size W >= 1
\* the segment files on disk are exactly those of the last W sequences (after
\* 1..6 with W = 3: segment_4.m4s, segment_5.m4s, segment_6.m4s).
C3_EvictedFilesAbsent ==
  /\ evicted.gone \cap disk.dirs[evicted.dir].files = {}
  /\ \A name \in Tracks :
       (Configured(name) /\ hls[1].is_live /\ hls[1].window_size >= 1 /\ run >= 1) =>
         DirOf(name).files = {Filename(n) : n \in Max(1, run - hls[1].window_size + 1)..run}

\* Sequences 1..6 added to a live writer of window_size 3.
C3_Witness ==
  \E name \in Tracks :
    /\ Configured(name) /\ hls[1].is_live /\ hls[1].window_size = 3 /\ run = 6
    /\ evicted.gone = {Filename(3)}
    /\ DirOf(name).files = {Filename(4), Filename(5), Filename(6)}

\* C4: for a track with a non-empty window the written media playlist carries the
\* sequence of the oldest window entry as #EXT-X-MEDIA-SEQUENCE and lists exactly
\* the window's entries in window order.
C4_PlaylistMatchesWindow ==
  \A name \in Tracks :
    (Configured(name) /\ Window(name) # <<>>) =>
      /\ DirOf(name).playlist # None
      /\ DirOf(name).playlist[1].media_sequence = Window(name)[1].sequence
      /\ Len(DirOf(name).playlist[1].extinf) = Len(Window(name))
      /\ \A i \in 1..Len(Window(name)) :
           /\ DirOf(name).playlist[1].extinf[i].uri = Window(name)[i].filename
           /\ DirOf(name).playlist[1].extinf[i].duration = Window(name)[i].duration

\* A finalized track whose window has lost its first entries.
C4_Witness ==
  \E name \in Tracks :
    /\ Configured(name) /\ Len(Window(name)) >= 2 /\ evicted.gone # {}
    /\ hls[1].variants[name][1].writer.finalized
    /\ Window(name)[1].sequence # Window(name)[2].sequence
    /\ DirOf(name).playlist[1].media_sequence = Window(name)[1].sequence

\* C6: on data long enough to be decrypted, with exactly one registered key
\* decrypt_segment runs the tool with that key whatever the kid; with two or
\* more registered keys it fails with "No key registered" without running the
\* tool when the kid is absent, and when the supplied kid is not registered.
C6_KeySelection ==
  (dec_call # None /\ dec_call[1].size >= 8) =>
    LET kid == dec_call[1].kid
        res == dec_result[1]
    IN  /\ Len(keys) = 1 => res.used = Some(keys[1])
        /\ (Len(keys) >= 2 /\ (kid = None \/ ~DictHas(keys, _normalize_kid(kid)))) =>
             (res.error = "No key registered for KID" /\ res.used = None)

\* Two keys are registered, the call names no kid, and the tool was run with
\* the first registered key.
C6_Witness ==
  /\ Len(keys) = 2
  /\ dec_call # None
  /\ dec_call[1].size >= 8
  /\ dec_call[1].kid = None
  /\ dec_result[1].used = Some(keys[1])
  /\ dec_result[1].error = ""

(***************************************************************************)
(* Claims about the session (under Spec and SpecVod).                      *)
(***************************************************************************)

\* C1: on every track add_segment is called at most once per segment number,
\* for every configured history_size, whatever the polls list and whichever
\* downloads or decryptions fail.
C1_AtMostOnce == \A t \in Tracks, n \in Numbers : writes[t][n] <= 1

\* history_size is -1 and segment 5 was added to the video track twice.
C1_Witness ==
  /\ cfg # None
  /\ cfg[1].history_size = -1
  /\ writes["video"][5] = 2

\* C1 with a history_size that is not negative.
C1_AtMostOnceNonNegativeHistory ==
  (cfg # None /\ cfg[1].history_size >= 0) => C1_AtMostOnce

\* The polls of C1: 5, 6, 7 and 8 were added once each, last_sequence is 8.
C1_Scenario ==
  /\ \A n \in 5..8 : writes["video"][n] = 1
  /\ last_sequences["video"] = Some(8)

AllReached ==
  \A t \in Tracks :
    origin[1].segments[t] # None =>
      /\ last_sequences[t] # None
      /\ last_sequences[t][1] >= origin[1].segments[t][1][Len(origin[1].segments[t][1])]

Finalized ==
  /\ task = "done"
  /\ hls[1].finalized
  /\ \A t \in Tracks :
       origin[1].segments[t] # None =>
         /\ disk.dirs[TrackDir(t, t)].playlist # None
         /\ disk.dirs[TrackDir(t, t)].playlist[1].end_list

\* C5: with a static manifest the session is completed exactly when every
\* selected track's last_sequence has reached the last listed number; when it
\* is completed finalize() was called, the task has ended and every track's
\* media playlist ends with #EXT-X-ENDLIST; and a started pipeline whose
\* downloads and decryptions eventually succeed is eventually completed.
C5_VodCompletes ==
  /\ []((status = "completed") <=> AllReached)
  /\ [](status = "completed" => Finalized)
  /\ (task = "pending") ~> (status = "completed")

\* history_size is -1, the only listed segment was added, and the iteration
\* ended in an error with last_sequence still unset.
C5_Witness ==
  /\ cfg # None
  /\ cfg[1].history_size = -1
  /\ origin[1].segments["video"] = Some(<<5>>)
  /\ writes["video"][5] >= 1
  /\ last_sequences["video"] = None
  /\ pc = "sleep"

\* C5 with a history_size that is not negative.
C5_VodCompletesNonNegativeHistory ==
  /\ []((status = "completed") <=> AllReached)
  /\ [](status = "completed" => Finalized)
  /\ (task = "pending" /\ cfg[1].history_size >= 0) ~> (status = "completed")

\* C7: when a poll iteration ends without any failure (the task sleeps before
\* the next poll), the status is not error and no error message is reported,
\* whatever earlier iterations recorded.
C7_ErrorCleared ==
  (task = "pending" /\ pc = "sleep" /\ ~iter_failed) => (status # "error" /\ error = None)

\* An iteration that found no new segment and failed nowhere ended with the
\* status and the message an earlier iteration recorded.
C7_Witness ==
  /\ task = "pending"
  /\ pc = "sleep"
  /\ ~iter_failed
  /\ status = "error"
  /\ error = Some("Failed to download MPD")
  /\ last_sequences["video"] = Some(7)

Rank(st) ==
  CASE st = "initializing" -> 0
    [] st = "starting" -> 1
    [] st = "running" -> 2
    [] st \in {"stopped", "completed"} -> 3

\* A change of status: never to initializing, to starting only from
\* initializing, never backwards between the statuses other than error, and to
\* error only from one of the given statuses.
StatusForward(errorFrom) ==
  status' # status =>
    /\ status' # "initializing"
    /\ status' = "starting" => status = "initializing"
    /\ status' = "error" => status \in errorFrom
    /\ (status' # "error" /\ status # "error") => Rank(status') >= Rank(status)

\* C8 as stated: the status moves forward along initializing, starting,
\* running, then stopped or completed, and error is entered only from starting
\* or running.
C8_StatusForward == [][StatusForward({"starting", "running"})]_vars

\* C8: the same, with error entered from initializing as well (start() sets it
\* when the decryptor cannot be built).
C8_StatusForwardOrStartFails == [][StatusForward({"initializing", "starting", "running"})]_vars

\* start() could not build the decryptor (initializing to error), and the
\* session was removed afterwards (error to stopped).
C8_Witness ==
  /\ add_result = "raised"
  /\ error = Some("Failed to initialise decryptor")
  /\ status = "stopped"
  /\ ~registered

\* The config has a key but no key_map, and the key has no KID, a wrong length,
\* or mp4decrypt is not on PATH.
Unbuildable(c) ==
  /\ c.key # None
  /\ c.key_map = None
  /\ \/ c.kid = None
     \/ c.key[1].hexlen \notin {32, 64}
     \/ ~c.tool_found

\* C9: when the decryptor cannot be built from the config, add_stream raised
\* and the session has no pipeline task, in every state from then on.
C9_NoTaskWhenDecryptorFails ==
  (cfg # None /\ Unbuildable(cfg[1])) => (add_result = "raised" /\ task = "none" /\ pc = "none")

\* add_stream raised for a key of 30 hexadecimal characters.
C9_Witness ==
  /\ cfg # None
  /\ cfg[1].key = Some(ShortKey)
  /\ add_result = "raised"
  /\ status = "error"
  /\ task = "none"

\* C10: the sequence numbers of every track's window are strictly ascending.
C10_WindowAscending ==
  \A t \in Tracks :
    Configured(t) =>
      \A i, j \in 1..Len(Window(t)) : i < j => Window(t)[i].sequence < Window(t)[j].sequence

\* The video window lists segment 5 twice.
C10_Witness ==
  /\ Configured("video")
  /\ Len(Window("video")) = 2
  /\ Window("video")[1].sequence = 5
  /\ Window("video")[2].sequence = 5

\* C10 with a history_size that is not negative.
C10_WindowAscendingNonNegativeHistory ==
  (cfg # None /\ cfg[1].history_size >= 0) => C10_WindowAscending

(***************************************************************************)
(* Claims about stopping a session (Spec).                                 *)
(***************************************************************************)

\* remove_stream, and with it stop(), has returned for the session.
StopReturned == cfg # None /\ ~registered

\* C11: when stop() has returned the pipeline task is done (or there never was
\* one) and the status is stopped; the step that stops the session sets the
\* stop event and leaves the error message, the writer and the files as they
\* were; and from then on nothing of the session changes: no segment, no
\* playlist, no error.
C11_StopStops ==
  /\ [](StopReturned => (task \in {"none", "done", "cancelled"} /\ status = "stopped" /\ stop_event))
  /\ [][StopReturned' =>
          /\ error' = error
          /\ hls' = hls
          /\ disk' = disk
          /\ writes' = writes
          /\ StopReturned => (status' = status /\ task' = task)]_vars

\* stop() interrupted the fetch of a video segment after another segment of
\* the same list was written: the task is cancelled in mid-sequence, the
\* status is stopped, no error is recorded.
C11_Witness ==
  /\ StopReturned
  /\ task = "cancelled"
  /\ status = "stopped"
  /\ error = None
  /\ Len(fresh["video"]) = 1
  /\ \E n \in Numbers : writes["video"][n] = 1

(***************************************************************************)
(* Claims about concurrent start() and stop() calls (SpecCalls).           *)
(***************************************************************************)

\* C12: at every moment at most one pipeline task of the session is not done,
\* and it is the one self._task refers to; a step taken while the task is not
\* done never creates a task, so start() called then changes nothing.
C12_AtMostOneTask ==
  /\ [](spawned - ended = IF Running THEN 1 ELSE 0)
  /\ [][Running => spawned' = spawned]_vars

\* start() ran a second time after a stop(): the first task is cancelled and
\* done, the second one is running and has written a segment, and a start()
\* call made now returns at once.
C12_Witness ==
  /\ spawned = 2
  /\ ended = 1
  /\ task = "pending"
  /\ pc = "segment_video"
  /\ \E n \in Numbers : writes["video"][n] > 0

(***************************************************************************)
(* Claims about the manager's registry (SpecManager).                      *)
(***************************************************************************)

\* C13: a remove_stream call returns True exactly when its id is in the
\* registry when it is called; when it returns the id is not in the registry,
\* get_stream_info and get_output_path return None for it and list_streams
\* does not contain it; a call that returns True returns with the session
\* stopped and its task done; a call that returns False changes nothing; and
\* an id removed with True stays out of the registry.
C13_RemoveStream ==
  /\ [][\A stream_id \in Ids, result \in BOOLEAN :
          (remove_call' # remove_call /\ remove_call' = Some([stream_id |-> stream_id, result |-> result])) =>
              /\ result <=> stream_id \in _sessions
              /\ stream_id \notin _sessions'
              /\ get_stream_info(stream_id)' = None
              /\ get_output_path(stream_id)' = None
              /\ \A info \in list_streams' : info.stream_id # stream_id
              /\ result => (status' = "stopped" /\ task' \in {"none", "done", "cancelled"})
              /\ ~result => UNCHANGED <<writerVars, decryptVars, parserVars, managerVars, lockVars, origin, cfg, registered, response, selection, failed, inits, add_result,
                                        status, error, is_live, decryptor, task, pc, stop_event,
                                        manifest, fresh, last_sequences, processed_numbers,
                                        processed_set, writes, iter_failed, spawned, ended, stoppers>>]_vars
  /\ [](remove_call # None /\ remove_call[1].result =>
          /\ get_stream_info(remove_call[1].stream_id) = None
          /\ get_output_path(remove_call[1].stream_id) = None
          /\ list_streams = {})

\* remove_stream returned True for the running session, which was registered
\* and writing segments: the registry is empty and the task is cancelled.
C13_Witness ==
  /\ remove_call = Some([stream_id |-> SessionId, result |-> TRUE])
  /\ _sessions = {}
  /\ task = "cancelled"
  /\ \E n \in Numbers : writes["video"][n] > 0

\* remove_stream returned False for the id of the session that was removed
\* before.
C13_WitnessRemovedTwice ==
  /\ remove_call = Some([stream_id |-> SessionId, result |-> FALSE])
  /\ cfg # None
  /\ status = "stopped"

(***************************************************************************)
(* Claims about the file server (SpecServe).                               *)
(***************************************************************************)

\* C14: every request is answered with 404 or with a file; a file that is
\* served exists and its real location is inside the real location of the
\* output directory of the session the request names, which is registered
\* when the request is made; a request that names an id that is not
\* registered then is answered with 404.
C14_NoTraversal ==
  [][response' # response =>
       LET r == response'[1]
       IN  /\ r.answer.code \in {200, 404}
           /\ r.answer.code = 200 =>
                /\ r.stream_id \in _sessions
                /\ r.answer.file[1] \in Files
                /\ IsPrefix(realpath(<<"output", r.stream_id>>), r.answer.file[1])
           /\ r.stream_id \notin _sessions => r.answer.code = 404]_vars

\* A path that leaves the session's directory by ".." and comes back into it
\* is served from inside the directory.
C14_Witness ==
  /\ response # None
  /\ response[1].stream_id = SessionId
  /\ response[1].filename = <<"..", "s1", "master.m3u8">>
  /\ response[1].answer = [code |-> 200, file |-> Some(<<"output", "s1", "master.m3u8">>)]

\* A path through the symbolic link that leads out of the session's
\* directory is answered with 404.
C14_WitnessLink ==
  /\ response # None
  /\ response[1].stream_id = SessionId
  /\ SessionId \in _sessions
  /\ response[1].filename = <<"link", "master.m3u8">>
  /\ response[1].answer.code = 404

(***************************************************************************)
(* Claims about the master playlist (SpecMaster).                          *)
(***************************************************************************)

\* The names of the configured variants whose init segment is written.
InitWritten == {name \in Tracks : Configured(name) /\ hls[1].variants[name][1].init_written}

\* The media playlists a master playlist refers to.
MasterUris(master) ==
  {master.media[i].uri : i \in 1..Len(master.media)}
    \cup {master.stream_inf[i].uri : i \in 1..Len(master.stream_inf)}

\* C15: a master playlist exists only when the init segment of at least one
\* track is written, and every media playlist it refers to is that of a track
\* whose init segment is written.
C15_MasterAfterInit ==
  disk.master # None =>
    /\ InitWritten # {}
    /\ \A uri \in MasterUris(disk.master[1]) :
         \E name \in InitWritten : uri = playlist_uri(hls[1].variants[name][1])

\* Both tracks are configured, only the audio init is written, finalize() was
\* called: the master playlist refers to the audio playlist alone.
C15_Witness ==
  /\ Configured("video")
  /\ hls[1].variants["video"][1].track_type = "video"
  /\ InitWritten = {"audio"}
  /\ hls[1].finalized
  /\ disk.master # None
  /\ MasterUris(disk.master[1]) = {<<"audio", "index.m3u8">>}

\* The tracks with a written init segment are all audio tracks.
AudioOnly ==
  /\ InitWritten # {}
  /\ \A name \in InitWritten : hls[1].variants[name][1].track_type = "audio"

\* The #EXT-X-STREAM-INF entries are exactly the playlists of the audio tracks
\* with a written init segment, none with an AUDIO attribute.
PlainAudioVariants(master) ==
  /\ {master.stream_inf[i].uri : i \in 1..Len(master.stream_inf)}
       = {playlist_uri(hls[1].variants[name][1]) : name \in InitWritten}
  /\ Len(master.stream_inf) = Cardinality(InitWritten)
  /\ \A i \in 1..Len(master.stream_inf) : master.stream_inf[i].audio_group = ""

\* C16: when the tracks with a written init segment are all audio tracks, the
\* master playlist lists each of them as a plain #EXT-X-STREAM-INF variant
\* and has no #EXT-X-MEDIA line.
C16_AudioOnlyNoMedia ==
  AudioOnly =>
    /\ disk.master # None
    /\ PlainAudioVariants(disk.master[1])
    /\ disk.master[1].media = <<>>

\* Only the audio init is written and the master playlist has one
\* #EXT-X-MEDIA line for the audio track beside its plain variant.
C16_Witness ==
  /\ AudioOnly
  /\ InitWritten = {"audio"}
  /\ disk.master # None
  /\ Len(disk.master[1].media) = 1
  /\ disk.master[1].media[1].uri = <<"audio", "index.m3u8">>
  /\ Len(disk.master[1].stream_inf) = 1
  /\ disk.master[1].stream_inf[1].uri = <<"audio", "index.m3u8">>

\* C16 without its last clause: the plain variants are as claimed.
C16_AudioOnlyPlainVariants ==
  AudioOnly => (disk.master # None /\ PlainAudioVariants(disk.master[1]))

\* The names of the variants of mv with the given track type and a written init.
Active(mv, track_type) ==
  {name \in Tracks : /\ mv.variants[name] # None
                     /\ mv.variants[name][1].init_written
                     /\ mv.variants[name][1].track_type = track_type}

RECURSIVE BandwidthOf(_, _)
\* The sum of the bandwidths of the named variants of mv.
BandwidthOf(mv, names) ==
  IF names = {} THEN 0
  ELSE LET name == CHOOSE n \in names : TRUE
       IN  mv.variants[name][1].bandwidth + BandwidthOf(mv, names \ {name})

\* The group bindings of a master playlist written for the writer state mv.
Bindings(master, mv) ==
  LET hasAudioGroup ==
        \E j \in 1..Len(master.media) :
          master.media[j].type = "AUDIO" /\ master.media[j].group_id = "audio"
      listed ==
        {name \in Active(mv, "audio") :
           \E j \in 1..Len(master.media) : master.media[j].uri = playlist_uri(mv.variants[name][1])}
  IN  \A i \in 1..Len(master.stream_inf) :
        \A name \in Active(mv, "video") :
          master.stream_inf[i].uri = playlist_uri(mv.variants[name][1]) =>
            /\ master.stream_inf[i].audio_group = "audio" <=> hasAudioGroup
            /\ master.stream_inf[i].audio_group \in {"", "audio"}
            /\ master.stream_inf[i].bandwidth
                 = mv.variants[name][1].bandwidth + BandwidthOf(mv, listed)

\* The written master playlist refers to the playlists of these tracks.
Refers(names) ==
  \A name \in names : playlist_uri(hls[1].variants[name][1]) \in MasterUris(disk.master[1])

\* C17: whenever a master playlist is written, each video entry carries
\* AUDIO="audio" exactly when the playlist has an #EXT-X-MEDIA audio entry of
\* group "audio", and its BANDWIDTH is the video bandwidth plus the bandwidths
\* of the audio tracks the playlist lists; and while a video and an audio init
\* are written, the master playlist on disk refers to both tracks.
C17_GroupBindings ==
  /\ [][disk.master' # disk.master => Bindings(disk.master[1], hls[1])']_vars
  /\ []((Active(hls[1], "video") # {} /\ Active(hls[1], "audio") # {}) =>
          (disk.master # None /\ Refers(Active(hls[1], "video") \cup Active(hls[1], "audio"))))

\* Video of bandwidth 2 and audio of bandwidth 1, both inits written: the
\* video entry has BANDWIDTH 3 and AUDIO="audio", the audio track is the one
\* #EXT-X-MEDIA entry.
C17_Witness ==
  /\ Active(hls[1], "video") = {"video"}
  /\ Active(hls[1], "audio") = {"audio"}
  /\ hls[1].variants["video"][1].bandwidth = 2
  /\ hls[1].variants["audio"][1].bandwidth = 1
  /\ disk.master # None
  /\ Len(disk.master[1].stream_inf) = 1
  /\ disk.master[1].stream_inf[1].bandwidth = 3
  /\ disk.master[1].stream_inf[1].audio_group = "audio"
  /\ Len(disk.master[1].media) = 1
  /\ disk.master[1].media[1].uri = <<"audio", "index.m3u8">>

(***************************************************************************)
(* Claims about ensure_variant (SpecEnsure).                               *)
(***************************************************************************)

\* What a call ensure_variant(name, track_type, meta) made in the writer
\* state before may leave as the writer state after.
Idempotent(before, after, name, track_type, meta) ==
  /\ \A other \in Tracks \ {name} : after.variants[other] = before.variants[other]
  /\ after.is_live = before.is_live
  /\ after.window_size = before.window_size
  /\ after.finalized = before.finalized
  /\ after.variants[name] # None
  /\ after.variants[name][1].name = name
  /\ after.variants[name][1].bandwidth = meta.bandwidth
  /\ after.variants[name][1].codecs = meta.codecs
  /\ after.variants[name][1].resolution = meta.resolution
  /\ IF before.variants[name] # None
     THEN /\ after.order = before.order
          /\ after.variants[name][1].init_written = before.variants[name][1].init_written
          /\ after.variants[name][1].writer = before.variants[name][1].writer
          /\ after.variants[name][1].track_type = before.variants[name][1].track_type
          /\ TrackDir(name, after.variants[name][1].track_type)
               = TrackDir(name, before.variants[name][1].track_type)
     ELSE /\ after.order = Append(before.order, name)
          /\ after.variants[name][1].track_type = track_type
          /\ ~after.variants[name][1].init_written
          /\ after.variants[name][1].writer = HLSWriter(before.is_live, before.window_size)

\* C18: a call of ensure_variant with a name the writer has creates no second
\* variant and replaces bandwidth, codecs and resolution of the state it has,
\* leaving init-written flag, segment window, directory, track type and every
\* other variant as they were; a call with a new name appends one variant
\* with the given name and track type; and the files are not touched.
C18_EnsureVariantIdempotent ==
  [][ensure_call' # ensure_call =>
       /\ Idempotent(hls[1], hls'[1], ensure_call'[1].name, ensure_call'[1].track_type,
                     ensure_call'[1].meta)
       /\ disk' = disk]_vars

\* The audio variant has its init and a segment, and the last call named it
\* with track type video and other metadata: it is still an audio track with
\* its init and its segment, and carries the new bandwidth.
C18_Witness ==
  /\ ensure_call # None
  /\ ensure_call[1].name = "audio"
  /\ ensure_call[1].track_type = "video"
  /\ ensure_call[1].meta.bandwidth = 2
  /\ Configured("audio")
  /\ hls[1].variants["audio"][1].track_type = "audio"
  /\ hls[1].variants["audio"][1].init_written
  /\ Len(Window("audio")) = 1
  /\ hls[1].variants["audio"][1].bandwidth = 2
  /\ Len(hls[1].order) = 1

(***************************************************************************)
(* Claims about the end of a media playlist (SpecWriter).                  *)
(***************************************************************************)

\* C19: the media playlist a track has on disk ends with #EXT-X-ENDLIST
\* exactly when the track's writer is finalized and not live; and a finalized
\* writer that is not live and holds a segment has a playlist on disk.
C19_EndListIffFinalizedVod ==
  \A name \in Tracks :
    Configured(name) =>
      LET w == hls[1].variants[name][1].writer
      IN  /\ DirOf(name).playlist # None =>
               (DirOf(name).playlist[1].end_list <=> (w.finalized /\ ~w.is_live))
          /\ (w.finalized /\ ~w.is_live /\ w.segments # <<>>) => DirOf(name).playlist # None

\* A track that is not live was finalized and holds two segments: its
\* playlist lists both and ends with #EXT-X-ENDLIST.
C19_Witness ==
  \E name \in Tracks :
    /\ Configured(name)
    /\ ~hls[1].is_live
    /\ hls[1].variants[name][1].writer.finalized
    /\ Len(Window(name)) = 2
    /\ DirOf(name).playlist # None
    /\ DirOf(name).playlist[1].end_list
    /\ Len(DirOf(name).playlist[1].extinf) = 2

\* A live track was finalized and its playlist, rewritten since, has no
\* #EXT-X-ENDLIST.
C19_WitnessLive ==
  \E name \in Tracks :
    /\ Configured(name)
    /\ hls[1].is_live
    /\ hls[1].variants[name][1].writer.finalized
    /\ DirOf(name).playlist # None
    /\ ~DirOf(name).playlist[1].end_list

(***************************************************************************)
(* Claims about the selection of representations.                          *)
(***************************************************************************)

\* rep is one of the list with is_video (is_audio) and no such one has more bandwidth
HighestOfKind(rep, representations, kind) ==
  LET ofKind(r) == IF kind = "video" THEN r.is_video ELSE r.is_audio
  IN  /\ \E i \in 1..Len(representations) : representations[i] = rep
      /\ ofKind(rep)
      /\ \A i \in 1..Len(representations) :
           ofKind(representations[i]) => representations[i].bandwidth <= rep.bandwidth

HasKind(representations, kind) ==
  \E i \in 1..Len(representations) :
    IF kind = "video" THEN representations[i].is_video ELSE representations[i].is_audio

\* C20: a poll of a session without representation_id selects, for video and
\* for audio, a representation of that kind with the highest bandwidth of the
\* kind when the manifest has one and none when it has not; a poll that
\* selects neither records the error "No matching video or audio
\* representation in manifest", goes to sleep and leaves the disk, the
\* variants of the writer, the add_segment calls and the processed numbers
\* as they were.
C20_SelectHighestBandwidth ==
  [][selection' # selection =>
       /\ selection' # None
       /\ cfg[1].representation_id = None =>
            \A kind \in Tracks :
              IF HasKind(selection'[1].representations, kind)
              THEN /\ selection'[1][kind] # None
                   /\ HighestOfKind(selection'[1][kind][1], selection'[1].representations, kind)
              ELSE selection'[1][kind] = None
       /\ (selection'[1].video = None /\ selection'[1].audio = None) =>
            /\ error' = Some("No matching video or audio representation in manifest")
            /\ status' = "error"
            /\ pc' = "sleep"
            /\ hls' # None
            /\ hls # None => hls' = hls
            /\ hls = None => hls'[1].order = <<>>
            /\ UNCHANGED <<disk, writes, last_sequences, processed_numbers, processed_set>>]_vars

\* Of two video representations the second has more bandwidth and is selected;
\* the manifest has no audio.
C20_Witness ==
  /\ selection # None
  /\ cfg # None
  /\ cfg[1].representation_id = None
  /\ Len(selection[1].representations) = 2
  /\ selection[1].representations[1].is_video
  /\ selection[1].representations[1].bandwidth < selection[1].representations[2].bandwidth
  /\ selection[1].video = Some(selection[1].representations[2])
  /\ selection[1].audio = None

\* A manifest without representations: the error is recorded and nothing is written.
C20_WitnessNothing ==
  /\ selection # None
  /\ selection[1].representations = <<>>
  /\ error = Some("No matching video or audio representation in manifest")
  /\ pc = "sleep"
  /\ disk = EmptyDisk

\* The representation selected by id: the first of the list with that id.
FirstWithId(representations, id) ==
  LET hasId(r) == r.id = id
  IN  IF SelectSeq(representations, hasId) = <<>>
      THEN None
      ELSE Some(Head(SelectSeq(representations, hasId)))

\* C21: a poll of a session with representation_id selects as video the first
\* representation with that id, whatever its kind, and selects the audio
\* representation of highest bandwidth only if the one selected by id is not
\* itself audio.
C21_IdThenAudioUnlessIdIsAudio ==
  [][(selection' # selection /\ cfg[1].representation_id # None) =>
       LET sel == selection'[1]
           byId == FirstWithId(sel.representations, cfg[1].representation_id[1])
       IN  /\ sel.video = byId
           /\ IF byId # None /\ byId[1].is_audio
              THEN sel.audio = None
              ELSE IF HasKind(sel.representations, "audio")
                   THEN /\ sel.audio # None
                        /\ HighestOfKind(sel.audio[1], sel.representations, "audio")
                   ELSE sel.audio = None]_vars

\* The part that holds: the first representation with the id is the video
\* selection, whatever its kind.
C21_IdSelectsFirstOfAnyKind ==
  [][(selection' # selection /\ cfg[1].representation_id # None) =>
       selection'[1].video = FirstWithId(selection'[1].representations, cfg[1].representation_id[1])]_vars

\* The representation with the configured id is audio only; it is selected as
\* video and an audio representation is selected as well.
C21_Witness ==
  /\ selection # None
  /\ cfg # None
  /\ cfg[1].representation_id # None
  /\ selection[1].video # None
  /\ selection[1].video[1].is_audio
  /\ ~selection[1].video[1].is_video
  /\ selection[1].audio # None

(***************************************************************************)
(* Claims about the parser.                                                *)
(***************************************************************************)

Parsed(call) == parsed # None /\ parsed[1].call = call

\* C22: every representation of a parsed manifest is video or audio and not both.
C22_ExactlyOneKind ==
  Parsed("parse") =>
    \A i \in 1..Len(parsed[1].representations) :
      parsed[1].representations[i].is_video # parsed[1].representations[i].is_audio

\* The part that holds: no representation of a parsed manifest is neither.
C22_NeverNeither ==
  Parsed("parse") =>
    \A i \in 1..Len(parsed[1].representations) :
      parsed[1].representations[i].is_video \/ parsed[1].representations[i].is_audio

\* An adaptation set with contentType video holds a representation with an
\* audio mimeType: the manifest lists it as video and as audio.
C22_Witness ==
  /\ Parsed("parse")
  /\ parsed[1].adaptation_set.contentType = <<"video">>
  /\ parsed[1].representation.mimeType = <<"audio", "/", "mp4">>
  /\ Len(parsed[1].representations) = 1
  /\ parsed[1].representations[1].is_video
  /\ parsed[1].representations[1].is_audio

\* The places in the segment list of the segments that come from S element i.
PlacesOf(segments, i) == {p \in 1..Len(segments) : segments[p].element = i}

\* C23: an S element with t = T, d = D > 0 and r = R >= 0 yields exactly R + 1
\* segments; their numbers follow the number of the segment before them
\* (startNumber when there is none) one by one, the time of the k-th is
\* T - presentationTimeOffset + (k - 1) * D, and each lasts D / timescale.
C23_TimelineExpansion ==
  Parsed("_parse_segment_timeline") =>
    LET call == parsed[1]
        segments == call.segments
    IN  \A i \in 1..Len(call.timeline) :
          LET s == call.timeline[i]
              places == PlacesOf(segments, i)
          IN  (s.t # None /\ s.d # None /\ s.d[1] > 0 /\ s.r >= 0) =>
                /\ Cardinality(places) = s.r + 1
                /\ \E first \in places :
                     /\ places = first..(first + s.r)
                     /\ segments[first].number =
                          IF first = 1 THEN call.attributes.startNumber
                          ELSE segments[first - 1].number + 1
                     /\ \A p \in places :
                          /\ segments[p].number = segments[first].number + (p - first)
                          /\ segments[p].time =
                               s.t[1] - call.attributes.presentationTimeOffset + (p - first) * s.d[1]
                          /\ call.attributes.timescale > 0 =>
                               segments[p].duration[1] * call.attributes.timescale
                                 = s.d[1] * segments[p].duration[2]

\* <S t=0 d=2 r=2> with timescale 2 and startNumber 5: three segments 5, 6, 7
\* of one second at the times 0, 2 and 4.
C23_Witness ==
  /\ Parsed("_parse_segment_timeline")
  /\ parsed[1].timeline = <<[t |-> Some(0), d |-> Some(2), r |-> 2]>>
  /\ parsed[1].attributes.timescale = 2
  /\ parsed[1].attributes.startNumber = 5
  /\ parsed[1].attributes.presentationTimeOffset = 0
  /\ Len(parsed[1].segments) = 3
  /\ \A k \in 1..3 :
       /\ parsed[1].segments[k].number = 4 + k
       /\ parsed[1].segments[k].time = 2 * (k - 1)
       /\ parsed[1].segments[k].duration = <<2, 2>>

\* Two S elements that both qualify: the second continues the numbers of the first.
C23_WitnessTwoElements ==
  /\ Parsed("_parse_segment_timeline")
  /\ Len(parsed[1].timeline) = 2
  /\ \A i \in 1..2 : /\ parsed[1].timeline[i].t # None
                     /\ parsed[1].timeline[i].d = Some(2)
                     /\ parsed[1].timeline[i].r = 1
  /\ parsed[1].attributes.presentationTimeOffset = 1
  /\ Len(parsed[1].segments) = 4

\* The number a sequence of decimal digits denotes.
RECURSIVE DigitsValue(_)
DigitsValue(digits) ==
  IF digits = <<>> THEN 0
  ELSE 10 * DigitsValue(SubSeq(digits, 1, Len(digits) - 1)) + digits[Len(digits)]

\* name is number in decimal, padded with zeros on the left to width places
ZeroPadded(name, number, width) ==
  /\ DigitsValue(name) = number
  /\ Len(name) >= width
  /\ Len(name) > width => (Len(name) = 1 \/ name[1] # 0)

\* The segments are numbered from startNumber, named $Number%0Wd$ and last duration / timescale.
TemplateSegments(call) ==
  \A k \in 1..Len(call.segments) :
    /\ call.segments[k].number = call.attributes.startNumber + (k - 1)
    /\ ZeroPadded(call.segments[k].name, call.segments[k].number, call.width)
    /\ call.segments[k].duration[1] * call.attributes.timescale
         = call.attributes.duration[1] * call.segments[k].duration[2]

\* The template has a duration and a timescale that make a segment duration.
WithDuration(call) ==
  /\ call.attributes.duration # None
  /\ call.attributes.duration[1] > 0
  /\ call.attributes.timescale > 0

\* C24: a template with a duration yields ceil(total_duration / (duration /
\* timescale)) segments when the period or media duration is known and 200
\* when it is not, numbered from startNumber, named by the zero-padded
\* number, each lasting duration / timescale.
C24_TemplateExpansion ==
  (Parsed("_parse_segment_template") /\ WithDuration(parsed[1])) =>
    /\ Len(parsed[1].segments) =
         IF parsed[1].total_duration # None
         THEN ceil(parsed[1].total_duration[1] * parsed[1].attributes.timescale,
                   parsed[1].attributes.duration[1])
         ELSE 200
    /\ TemplateSegments(parsed[1])

\* The same for a known duration that is not zero: this holds.
C24_TemplateExpansionPositiveTotal ==
  (Parsed("_parse_segment_template") /\ WithDuration(parsed[1])
     /\ parsed[1].total_duration # Some(0)) =>
    /\ Len(parsed[1].segments) =
         IF parsed[1].total_duration # None
         THEN ceil(parsed[1].total_duration[1] * parsed[1].attributes.timescale,
                   parsed[1].attributes.duration[1])
         ELSE 200
    /\ TemplateSegments(parsed[1])

\* duration 96, timescale 24, startNumber 1, width 2 and a period of 8 s:
\* the segments 01 and 02 of 4 s each.
C24_Witness ==
  /\ Parsed("_parse_segment_template")
  /\ parsed[1].attributes.duration = Some(96)
  /\ parsed[1].attributes.timescale = 24
  /\ parsed[1].attributes.startNumber = 1
  /\ parsed[1].width = 2
  /\ parsed[1].total_duration = Some(8)
  /\ Len(parsed[1].segments) = 2
  /\ parsed[1].segments[1].name = <<0, 1>>
  /\ parsed[1].segments[2].name = <<0, 2>>
  /\ parsed[1].segments[1].duration = <<96, 24>>

\* A period of zero seconds: 200 segments.
C24_WitnessZeroTotal ==
  /\ Parsed("_parse_segment_template")
  /\ WithDuration(parsed[1])
  /\ parsed[1].total_duration = Some(0)
  /\ Len(parsed[1].segments) = 200

(***************************************************************************)
(* Claims about the temporary-file fallback of the decryptor.              *)
(***************************************************************************)

\* The last decrypt_segment call ran the tool (a key was found).
ToolRun == dec_call # None /\ SelectKey(keys, dec_call[1].kid).ok

\* What the fallback run has to give: the bytes of the output file when the
\* file-mode run ends well, an error when it does not, no temporary file left.
FallbackDone ==
  /\ dec_result[1].fallback
  /\ dec_result[1].temp_files = {}
  /\ IF dec_call[1].tool.file_exit = 0 /\ dec_call[1].tool.file_output # <<>>
     THEN ~dec_result[1].raised /\ dec_result[1].bytes = dec_call[1].tool.file_output
     ELSE dec_result[1].raised

\* C25: with a tool that works with real file paths only, decrypt_segment
\* runs the tool a second time on two temporary files, returns the bytes of
\* the output file, and leaves neither temporary file, whether the second run
\* ends well or not; a first run that fails for another reason is raised
\* without a second run.
C25_FallbackWhenDashUnsupported ==
  ToolRun =>
    /\ dec_call[1].tool.dash \in NoDashSupport => FallbackDone
    /\ dec_call[1].tool.dash \in {"silent", "bad_key", "no_exec"} =>
         dec_result[1].raised /\ ~dec_result[1].fallback

\* The part that holds: the fallback is taken, and done as claimed, when the
\* tool's message is one of the two the code looks for, and not otherwise.
C25_FallbackOnKnownMessages ==
  ToolRun =>
    /\ dec_call[1].tool.dash \in {"input_error", "stat_error"} => FallbackDone
    /\ dec_call[1].tool.dash \in {"silent", "bad_key", "no_exec", "other_error", "as_paths"} =>
         dec_result[1].raised /\ ~dec_result[1].fallback

\* The fallback at work: the tool names the operand in its message, the
\* second run writes the output file, its bytes are returned.
C25_Witness ==
  /\ ToolRun
  /\ dec_call[1].tool.dash = "input_error"
  /\ dec_call[1].tool.file_exit = 0
  /\ dec_result[1].fallback
  /\ dec_result[1].bytes = <<"plain">>
  /\ dec_result[1].temp_files = {}

\* The tool of test_mp4decrypt_wrapper (cat "$3" > "$4"): the first run ends
\* with exit 0 and nothing on stdout, and decrypt_segment raises.
C25_WitnessNoFallback ==
  /\ ToolRun
  /\ dec_call[1].tool.dash = "as_paths"
  /\ dec_call[1].tool.file_exit = 0
  /\ dec_call[1].tool.file_output = <<"plain">>
  /\ dec_result[1].raised
  /\ ~dec_result[1].fallback

(***************************************************************************)
(* Claims about the directories of the sessions.                           *)
(***************************************************************************)

\* Neither directory is the other or lies below it.
DisjointSubtrees(a, b) == ~IsPrefix(a, b) /\ ~IsPrefix(b, a)

\* C26: two sessions that are registered at the same time have output
\* directories of which neither lies in the other, and have written no file
\* in common.
C26_DisjointOutputDirs ==
  \A a, b \in Ids :
    (a # b /\ sessions[a] # None /\ sessions[b] # None) =>
      /\ DisjointSubtrees(sessions[a][1].output_dir, sessions[b][1].output_dir)
      /\ sessions[a][1].written \cap sessions[b][1].written = {}

\* The part that holds: two sessions without an output_dir of their own.
C26_DisjointDefaultDirs ==
  \A a, b \in Ids :
    (a # b /\ sessions[a] # None /\ sessions[b] # None
       /\ sessions[a][1].output_dir = base_output_dir \o <<a>>
       /\ sessions[b][1].output_dir = base_output_dir \o <<b>>) =>
      /\ DisjointSubtrees(sessions[a][1].output_dir, sessions[b][1].output_dir)
      /\ sessions[a][1].written \cap sessions[b][1].written = {}

\* Two sessions were added with the same output_dir and both have written
\* the master playlist there.
C26_Witness ==
  /\ sessions["s1"] # None
  /\ sessions["s2"] # None
  /\ sessions["s1"][1].output_dir = <<"srv", "out">>
  /\ sessions["s2"][1].output_dir = <<"srv", "out">>
  /\ <<"srv", "out", "master.m3u8">> \in sessions["s1"][1].written \cap sessions["s2"][1].written

(***************************************************************************)
(* Claims about the history of processed numbers.                          *)
(***************************************************************************)

\* The numbers of a queue.
QueueNumbers(numbers) == {numbers[i] : i \in 1..Len(numbers)}

\* Queue and set hold the same numbers and the queue holds none twice.
Lockstep(t) ==
  /\ QueueNumbers(processed_numbers[t]) = processed_set[t]
  /\ \A i, j \in 1..Len(processed_numbers[t]) :
       i # j => processed_numbers[t][i] # processed_numbers[t][j]

\* C27: for every track the processed queue and the processed set hold the
\* same numbers, the queue holds no number twice, and the queue is not
\* longer than the configured history_size (where that is not negative).
C27_HistoryBounded ==
  cfg # None =>
    \A t \in Tracks :
      /\ Lockstep(t)
      /\ cfg[1].history_size >= 0 => Len(processed_numbers[t]) <= cfg[1].history_size

\* The part that holds: queue and set in lockstep, the queue not longer than
\* history_size when that is positive, and a number that no longer fits
\* pushes out the oldest.
C27_HistoryLockstep ==
  [][/\ cfg' # None =>
          \A t \in Tracks :
            /\ Lockstep(t)'
            /\ cfg'[1].history_size > 0 => Len(processed_numbers'[t]) <= cfg'[1].history_size
     /\ \A t \in Tracks :
          (cfg # None /\ cfg[1].history_size > 0 /\ processed_numbers'[t] # processed_numbers[t]
             /\ Len(processed_numbers[t]) = cfg[1].history_size) =>
            /\ Tail(processed_numbers[t]) = SubSeq(processed_numbers'[t], 1, Len(processed_numbers'[t]) - 1)
            /\ Head(processed_numbers[t]) \notin processed_set'[t]]_vars

\* history_size 0 was configured and a number is in the queue.
C27_Witness ==
  /\ cfg # None
  /\ cfg[1].history_size = 0
  /\ \E t \in Tracks : Len(processed_numbers[t]) = 2

\* history_size 1: the queue holds the last number only, after an older one was dropped.
C27_WitnessEvicted ==
  /\ cfg # None
  /\ cfg[1].history_size = 1
  /\ processed_numbers["video"] = <<6>>
  /\ processed_set["video"] = {6}
  /\ writes["video"][5] = 1

(***************************************************************************)
(* Claims about the segment diff.                                          *)
(***************************************************************************)

\* A segment is new for a track.
IsNew(segment, track) ==
  /\ segment.number # None
  /\ segment.number[1] \notin processed_set[track]
  /\ last_sequences[track] # None => segment.number[1] > last_sequences[track][1]

\* result holds exactly the new segments of segments, in their order.
RECURSIVE NewInOrder(_, _, _)
NewInOrder(result, segments, track) ==
  IF segments = <<>> THEN result = <<>>
  ELSE IF IsNew(Head(segments), track)
  THEN result # <<>> /\ Head(result) = Head(segments)
       /\ NewInOrder(Tail(result), Tail(segments), track)
  ELSE NewInOrder(result, Tail(segments), track)

\* C28: _collect_new_segments returns, in the order of the manifest, exactly
\* the segments that have a number, whose number is not in the track's
\* processed set and is greater than the track's last sequence if there is
\* one; the processed set, the queue and the last sequence stay as they were.
C28_SegmentDiff ==
  [][manifest' # manifest =>
       /\ NewInOrder(fresh'[manifest'[1].track], manifest'[1].segments, manifest'[1].track)
       /\ UNCHANGED <<processed_set, processed_numbers, last_sequences>>]_vars

\* The list [7, 5] for a track whose queue is [6]: 7 is new, 5 is not in
\* the set but not above the last sequence.
C28_Witness ==
  /\ manifest # None
  /\ manifest[1].track = "video"
  /\ processed_numbers["video"] = <<6>>
  /\ processed_numbers["audio"] = <<>>
  /\ manifest[1].segments = <<[url |-> 1, number |-> Some(7)], [url |-> 2, number |-> Some(5)]>>
  /\ fresh["video"] = <<[url |-> 1, number |-> Some(7)]>>

\* A segment without a number is left out.
C28_WitnessNoNumber ==
  /\ manifest # None
  /\ manifest[1].segments = <<[url |-> 1, number |-> None], [url |-> 2, number |-> Some(7)]>>
  /\ fresh[manifest[1].track] = <<[url |-> 2, number |-> Some(7)]>>

(* ---- C29: a failed segment is not recorded and is selected again ---- *)

\* The step in which the download or the decryption of a segment of the track fails.
SegmentFails(track, number) ==
  /\ failed'[track] = Some(Failed(number))
  /\ failed[track] # failed'[track]

\* C29: when the download or the decryption of a segment fails, the segment is not added
\* to the track's processed set, last_sequence stays below it, no file and no playlist
\* entry is written, and the status becomes error; and the next _collect_new_segments
\* call whose manifest still lists the segment selects it as new again.
C29_FailedSegmentRetried ==
  /\ [][\A track \in Tracks : \A number \in Numbers :
          SegmentFails(track, number) =>
            /\ number \notin processed_set'[track]
            /\ \A i \in 1..Len(processed_numbers'[track]) : processed_numbers'[track][i] # number
            /\ last_sequences'[track] # None => last_sequences'[track][1] < number
            /\ UNCHANGED <<disk, hls, writes>>
            /\ status' = "error"]_vars
  /\ [](\A track \in Tracks :
          (failed[track] # None /\ failed[track][1].seen /\ failed[track][1].listed)
            => failed[track][1].new)

\* A segment failed, the next manifest listed it, and it was selected as new again.
C29_Witness ==
  \E track \in Tracks :
    /\ failed[track] # None
    /\ failed[track][1].seen /\ failed[track][1].listed /\ failed[track][1].new
    /\ failed[track][1].number \notin processed_set[track]
    /\ status = "error"

\* A segment failed and the next manifest no longer listed it.
C29_WitnessDropped ==
  \E track \in Tracks :
    /\ failed[track] # None
    /\ failed[track][1].seen /\ ~failed[track][1].listed

(* ---- C30: the two tracks within a poll ---- *)

\* The step that ends a poll in which an init segment or a media segment was fetched,
\* the session not being asked to stop.
PollEnds ==
  /\ pc \in {"init_video", "init_audio", "segment_video", "segment_audio"}
  /\ pc' = "sleep"
  /\ manifest # None
  /\ ~stop_event

\* The segments of the poll's manifest that are still new for the track when the poll ends.
LeftNew(track) ==
  IF manifest[1].segments[track] = None THEN <<>>
  ELSE _collect_new_segments(manifest[1].segments[track][1],
                             processed_set'[track], last_sequences'[track])

\* The poll ends on a failure of the track's own init segment or media segment.
OwnFailure(track) ==
  /\ pc \in (IF track = "video" THEN {"init_video", "segment_video"}
                                ELSE {"init_audio", "segment_audio"})
  /\ status' = "error"

\* C30: in every poll the new segments a track's manifest lists are processed whatever
\* happens on the other track: a poll that ends with new segments of a track left
\* unprocessed ends on a failure of that track itself.
C30_TracksIndependent ==
  [][PollEnds => \A track \in Tracks : LeftNew(track) # <<>> => OwnFailure(track)]_vars

\* What holds instead: video is processed before audio and the init segments before any
\* media segment, so new video segments are left only by a failure of an init segment or
\* of a video segment, and new audio segments by any failure of the poll.
C30_VideoThenAudio ==
  [][PollEnds =>
       /\ LeftNew("video") # <<>> =>
            status' = "error" /\ pc \in {"init_video", "init_audio", "segment_video"}
       /\ LeftNew("audio") # <<>> => status' = "error"]_vars

\* A video segment failed in a poll whose manifest listed a new audio segment:
\* the audio track did not advance, the failure being on the video track.
C30_Witness ==
  /\ failed["video"] # None /\ ~failed["video"][1].seen
  /\ pc = "sleep" /\ status = "error"
  /\ failed["audio"] = None
  /\ last_sequences["audio"] = None
  /\ hls # None /\ hls[1].variants["audio"] # None
  /\ hls[1].variants["audio"][1].init_written

\* A poll in which video segments were written and an audio segment then failed.
C30_WitnessAudioFails ==
  /\ failed["audio"] # None /\ ~failed["audio"][1].seen
  /\ pc = "sleep" /\ status = "error"
  /\ last_sequences["video"] # None
  /\ last_sequences["audio"] = None

(* ---- C31: a failure of one iteration does not end the pipeline ---- *)

\* The step in which an iteration of the loop records an error.
IterationFails == iter_failed' /\ ~iter_failed

\* C31: after a manifest fetch failure, a parse failure, a missing representation or
\* an init/segment download or decryption failure the status is error with a message,
\* the task stays alive in its sleep, and the sleep is followed by the next poll;
\* the task ends only through stop() or VOD completion.
C31_FailureKeepsPolling ==
  [][/\ IterationFails =>
          /\ status' = "error" /\ error' # None
          /\ task' = "pending" /\ pc' = "sleep"
     /\ (task = "pending" /\ pc = "sleep" /\ pc' # "sleep" /\ ~stop_event') => pc' = "mpd"
     /\ (task = "pending" /\ task' # "pending") =>
          \/ stop_event'
          \/ status' = "completed" /\ ~IterationFails]_vars

\* The loop is polling again after an iteration that failed.
C31_Witness ==
  /\ task = "pending" /\ pc = "mpd"
  /\ status = "error" /\ error # None
  /\ ~stop_event

\* A segment was written in a poll after one whose segment download failed.
C31_WitnessRecovered ==
  /\ task = "pending" /\ status = "running"
  /\ error = Some("download failed")
  /\ \E t \in Tracks : last_sequences[t] # None

(* ---- C32: a VOD writer never evicts ---- *)

\* The track's writer is a VOD writer.
VodTrack(name) == Configured(name) /\ ~hls[1].variants[name][1].writer.is_live

\* add_segment has just been called on the track.
SegmentAdded(name) == Configured(name) /\ Window(name)' # Window(name)

\* C32: in VOD mode add_segment never evicts, whatever window_size was configured:
\* each call appends one entry to the window and removes no file, the playlist on disk
\* lists every segment added so far, every segment file is on disk, and
\* #EXT-X-MEDIA-SEQUENCE stays at the first segment added.
C32_VodNeverEvicts ==
  /\ [](\A name \in Tracks :
          (VodTrack(name) /\ Window(name) # <<>>) =>
            /\ DirOf(name).playlist # None
            /\ DirOf(name).playlist[1].extinf =
                 [i \in 1..Len(Window(name)) |->
                    [duration |-> Window(name)[i].duration, uri |-> Window(name)[i].filename]]
            /\ DirOf(name).playlist[1].media_sequence = Window(name)[1].sequence
            /\ \A i \in 1..Len(Window(name)) : Window(name)[i].filename \in DirOf(name).files)
  /\ [][\A name \in Tracks :
          (VodTrack(name) /\ SegmentAdded(name)) =>
            /\ Len(Window(name)') = Len(Window(name)) + 1
            /\ SubSeq(Window(name)', 1, Len(Window(name))) = Window(name)
            /\ DirOf(name).files \subseteq DirOf(name)'.files
            /\ evicted'.gone = {}
            /\ Window(name) # <<>> =>
                 DirOf(name)'.playlist[1].media_sequence = DirOf(name).playlist[1].media_sequence]_vars

\* A VOD writer configured with window_size 1 holds three segments, all on disk.
C32_Witness ==
  \E name \in Tracks :
    /\ VodTrack(name)
    /\ hls[1].window_size = 1
    /\ Len(Window(name)) = 3
    /\ DirOf(name).playlist # None /\ Len(DirOf(name).playlist[1].extinf) = 3

(* ---- C33: init segments before any media segment of the poll ---- *)

\* The init segment of the track has been written: the writer's flag and the file.
InitOnDisk(track) ==
  /\ Configured(track)
  /\ hls[1].variants[track][1].init_written
  /\ DirOf(track).init

\* The step in which the init segment of a track fails to download or decrypt.
InitFails == pc \in {"init_video", "init_audio"} /\ IterationFails

\* C33: no media segment of any track is written before the init segment of every
\* selected track of that poll has been written, and a poll in which an init download
\* or decryption fails processes no segment of any track: the init fetches come first
\* in the poll, and the failure ends it.
C33_InitBeforeSegments ==
  /\ [](pc \in {"segment_video", "segment_audio"} =>
          \A track \in Tracks : manifest[1].segments[track] # None => InitOnDisk(track))
  /\ [][/\ writes' # writes =>
             \A track \in Tracks : manifest[1].segments[track] # None => InitOnDisk(track)
        /\ pc' \in {"init_video", "init_audio"} =>
             pc \in {"mpd", "init_video"} /\ writes' = writes
        /\ InitFails => pc' = "sleep" /\ writes' = writes /\ disk' = disk]_vars

\* The audio init of a poll that selected both tracks failed after the video init was
\* written: the poll is over and no segment of either track has been written.
C33_Witness ==
  /\ pc = "sleep" /\ status = "error"
  /\ InitOnDisk("video")
  /\ Configured("audio") /\ ~hls[1].variants["audio"][1].init_written
  /\ \A track \in Tracks : last_sequences[track] = None /\ Window(track) = <<>>

\* Both init segments are written and a segment of each track is being processed.
C33_WitnessBothWritten ==
  /\ pc = "segment_audio"
  /\ InitOnDisk("video") /\ InitOnDisk("audio")
  /\ last_sequences["video"] # None

(* ---- C34: the init segment of a track is written once per session ---- *)

\* The step in which a manifest is parsed and the representations are selected.
PollSelects == task = "pending" /\ pc = "mpd" /\ task' = "pending" /\ selection' # None /\ ~IterationFails

\* C34: a track's init segment is downloaded only while write_init has not succeeded
\* for the track, and once written it is never written again, whichever representation
\* later polls select; after a failed init download or decryption the next poll that
\* selects the track fetches the init segment again.
C34_InitWrittenOnce ==
  /\ [](/\ pc = "init_video" => inits["video"] = None /\ ~DirOf("video").init
        /\ pc = "init_audio" => inits["audio"] = None /\ ~DirOf("audio").init)
  /\ [][/\ \A track \in Tracks : inits[track] # None => inits'[track] = inits[track]
        /\ \A track \in Tracks : inits'[track] # inits[track] =>
             pc = (IF track = "video" THEN "init_video" ELSE "init_audio")
        /\ InitFails => UNCHANGED <<inits, disk, hls>>
        /\ (PollSelects /\ selection'[1].video # None /\ inits["video"] = None) =>
             pc' = "init_video"
        /\ (PollSelects /\ selection'[1].audio # None /\ inits["audio"] = None
              /\ (selection'[1].video # None => inits["video"] # None)) =>
             pc' = "init_audio"
        /\ (pc = "init_video" /\ inits'["video"] # None /\ selection[1].audio # None
              /\ inits["audio"] = None) =>
             pc' = "init_audio"]_vars

\* The video init segment was written for representation 1, a later poll selected
\* representation 2 for video, and only the audio init segment is being fetched.
C34_Witness ==
  /\ inits["video"] = Some(1)
  /\ selection # None /\ selection[1].video # None /\ selection[1].video[1].id = 2
  /\ pc = "init_audio"

\* The video init failed in one poll and is being fetched again in a later one.
C34_WitnessRetry ==
  /\ pc = "init_video"
  /\ status = "error" /\ error \in {Some("download failed"), Some("mp4decrypt failed")}

(* ---- C36: playlist entries and the files they name ---- *)

\* Every entry of the track's media playlist on disk names a file of the directory.
EntriesOnDisk(name) ==
  DirOf(name).playlist # None =>
    \A i \in 1..Len(DirOf(name).playlist[1].extinf) :
      DirOf(name).playlist[1].extinf[i].uri \in DirOf(name).files

\* C36: after any sequence of add_segment calls, repeated sequence numbers included,
\* every entry listed in a track's written media playlist names a segment file that
\* exists on disk.
C36_EntriesOnDisk ==
  \A name \in Tracks : Configured(name) => EntriesOnDisk(name)

\* What holds instead: the entries name existing files as long as the calls so far
\* used the sequence numbers 1, 2, 3, .. in order.
C36_EntriesOnDiskAscending ==
  \A name \in Tracks : (Configured(name) /\ run >= 0) => EntriesOnDisk(name)

\* A live writer whose window holds a sequence number twice.
C36_Witness ==
  \E name \in Tracks :
    /\ Configured(name) /\ hls[1].variants[name][1].writer.is_live
    /\ \E i, j \in 1..Len(Window(name)) : i < j /\ Window(name)[i].sequence = Window(name)[j].sequence

\* The eviction of the older entry has unlinked the file the newer entry names.
C36_WitnessFileGone ==
  \E name \in Tracks :
    /\ Configured(name) /\ DirOf(name).playlist # None
    /\ \E i \in 1..Len(Window(name)) : Window(name)[i].filename \notin DirOf(name).files

(* ---- C37: last_sequence only grows, and with every segment written ---- *)

\* add_segment has just written segment number of the track.
Written(track, number) == writes'[track][number] = writes[track][number] + 1

\* The steps of last_sequence: it changes only with a segment written in the step, to
\* that segment's number, which is above the old value.
LastSequenceGrows ==
  \A track \in Tracks :
    last_sequences'[track] # last_sequences[track] =>
      /\ last_sequences'[track] # None
      /\ Written(track, last_sequences'[track][1])
      /\ last_sequences[track] # None => last_sequences[track][1] < last_sequences'[track][1]

\* No number at or below last_sequence is written.
AboveLastSequence ==
  \A track \in Tracks, number \in Numbers :
    Written(track, number) =>
      (last_sequences[track] = None \/ last_sequences[track][1] < number)

\* C37: for every track last_sequence is unset or strictly increases each time a
\* segment is processed, it never decreases and changes only with a successful
\* add_segment, and a number at or below it is never written again.
C37_LastSequenceMonotone ==
  [][/\ LastSequenceGrows
     /\ AboveLastSequence
     /\ \A track \in Tracks, number \in Numbers :
          Written(track, number) => last_sequences'[track] = Some(number)]_vars

\* What holds for every history_size: last_sequence never decreases, changes only with
\* a segment written, and nothing at or below it is written.
C37_LastSequenceNeverDecreases ==
  [][LastSequenceGrows /\ AboveLastSequence]_vars

\* With a history_size that is not negative every segment written advances last_sequence.
C37_LastSequenceMonotoneNonNegativeHistory ==
  [][(cfg # None /\ cfg[1].history_size >= 0) =>
       \A track \in Tracks, number \in Numbers :
         Written(track, number) => last_sequences'[track] = Some(number)]_vars

\* A segment was written and last_sequence is still unset.
C37_Witness ==
  \E track \in Tracks, number \in Numbers :
    /\ writes[track][number] > 0
    /\ last_sequences[track] = None

\* last_sequence is past a number that has left the processed history.
C37_WitnessEvicted ==
  \E track \in Tracks, number \in Numbers :
    /\ writes[track][number] = 1
    /\ number \notin processed_set[track]
    /\ last_sequences[track] # None /\ last_sequences[track][1] > number
    /\ manifest # None /\ manifest[1].segments[track] # None
    /\ \E i \in 1..Len(manifest[1].segments[track][1]) : manifest[1].segments[track][1][i] = number

(* ---- C38: completed sessions and #EXT-X-ENDLIST ---- *)

\* Every media playlist on disk ends with #EXT-X-ENDLIST.
PlaylistsEnded ==
  \A name \in Tracks :
    (Configured(name) /\ DirOf(name).playlist # None) => DirOf(name).playlist[1].end_list

\* C38: whenever the status is completed every track's media playlist on disk ends with
\* #EXT-X-ENDLIST, and the writer's live flag agrees with the live flag of the most
\* recent manifest, also when the manifest turned from live to static between polls.
C38_CompletedEndsPlaylists ==
  /\ status = "completed" => PlaylistsEnded
  /\ (hls # None /\ manifest # None) =>
       /\ hls[1].is_live = manifest[1].is_live
       /\ \A name \in Tracks :
            Configured(name) => hls[1].variants[name][1].writer.is_live = manifest[1].is_live

\* What holds instead: the writer keeps the live flag of the first manifest, and a
\* completed session whose first manifest was static has ended playlists.
C38_CompletedEndsPlaylistsOfVodWriter ==
  (status = "completed" /\ ~hls[1].is_live) => PlaylistsEnded

\* The live flag of the writer and of its tracks' writers never changes.
C38_WriterFlagFixed ==
  [][hls # None =>
       /\ hls'[1].is_live = hls[1].is_live
       /\ \A name \in Tracks :
            Configured(name) =>
              hls'[1].variants[name][1].writer.is_live = hls[1].variants[name][1].writer.is_live]_vars

\* A session completed by a static manifest after a live one: finalize ran on live
\* writers and the video playlist has no #EXT-X-ENDLIST.
C38_Witness ==
  /\ status = "completed" /\ ~is_live
  /\ hls # None /\ hls[1].is_live /\ hls[1].finalized
  /\ Configured("video") /\ DirOf("video").playlist # None
  /\ ~DirOf("video").playlist[1].end_list

\* A session whose every manifest was static is completed with ended playlists.
C38_WitnessVod ==
  /\ status = "completed" /\ hls # None /\ ~hls[1].is_live
  /\ Configured("video") /\ Configured("audio") /\ PlaylistsEnded
  /\ DirOf("video").playlist # None /\ DirOf("audio").playlist # None

(* ---- C39: completed as a terminal status ---- *)

\* C39: once the status is completed no later operation on the session changes it.
C39_CompletedTerminal ==
  [][status = "completed" => status' = "completed"]_vars

\* What holds instead: a completed status is left only by remove_stream, whose stop()
\* sets status stopped; the pipeline task has ended and changes nothing any more.
C39_CompletedUntilStopped ==
  [][(status = "completed" /\ status' # "completed") =>
       /\ registered /\ ~registered'
       /\ status' = "stopped"
       /\ task = "done" /\ task' = "done"]_vars

\* A session that completed, its playlists finalized, has status stopped after
\* remove_stream.
C39_Witness ==
  /\ status = "stopped"
  /\ hls # None /\ hls[1].finalized
  /\ task = "done" /\ ~registered

\* A completed session still in the registry.
C39_WitnessCompleted ==
  /\ status = "completed" /\ registered /\ task = "done"
  /\ get_stream_info(SessionId) # None /\ get_stream_info(SessionId)[1].status = "completed"

(* ---- C40: a failed add_stream and the registry ---- *)

\* C40: when add_stream raises because the session could not be started, the registry
\* is as before the call: list_streams() returns no session of the failed call and
\* neither get_stream_info nor get_output_path reaches one.
C40_FailedAddLeavesRegistry ==
  add_result = "raised" =>
    /\ list_streams = {}
    /\ \A stream_id \in Ids : get_stream_info(stream_id) = None /\ get_output_path(stream_id) = None

\* What holds instead: the session of a failed add_stream has status error and the
\* decryptor message, and no pipeline task was created for it.
C40_FailedAddNeverStarts ==
  add_result = "raised" =>
    /\ task = "none" /\ spawned = 0
    /\ hls = None
    /\ (registered =>
          /\ get_stream_info(SessionId)[1].status = "error"
          /\ get_stream_info(SessionId)[1].error = Some("Failed to initialise decryptor"))

\* add_stream raised and its session is listed.
C40_Witness ==
  /\ add_result = "raised"
  /\ \E info \in list_streams : info.stream_id = SessionId /\ info.status = "error"
  /\ get_output_path(SessionId) # None

\* The session of the failed call was removed afterwards.
C40_WitnessRemoved ==
  /\ add_result = "raised" /\ ~registered /\ list_streams = {}

(* ---- C35: every stop() and remove_stream() call returns ---- *)

\* The call of the caller is under way: waiting for the lock, holding it, or
\* suspended in stop()'s await.
InCall(c) == calls[c].pc \in {"waiting", "locked", "awaiting"}

\* The call of the caller has returned or raised.
CallOver(c) == calls[c].pc \in {"returned", "raised"}

\* C35: every stop() and every remove_stream() call eventually returns, the cancelled
\* task ends at whichever suspension point it is in, and every add_stream and
\* remove_stream call waiting for the manager lock eventually acquires it.
C35_CallsReturn ==
  /\ \A c \in Callers : InCall(c) ~> CallOver(c)
  /\ \A c \in Callers : (calls[c].pc = "waiting") ~> (calls[c].pc # "waiting")
  /\ (task = "cancelling") ~> (task \in {"cancelled", "done"})

\* Three calls are over: a remove_stream that cancelled the running task, and two
\* calls that had to wait for the lock meanwhile.
C35_Witness ==
  /\ \A c \in Callers : CallOver(c)
  /\ ended = 1 /\ task \in {"cancelled", "done"} /\ status = "stopped"
  /\ \E c \in Callers : calls[c].op = "remove" /\ calls[c].arg = Some(SessionId) /\ ~calls[c].waited
  /\ \E c, d \in Callers : c # d /\ calls[c].waited /\ calls[d].waited

\* remove_stream holds the lock and awaits the task, which is suspended in a segment
\* download, while an add_stream call waits for the lock.
C35_WitnessWaiting ==
  /\ task = "cancelling" /\ pc = "segment_video"
  /\ lock.locked /\ lock.waiters # <<>>
  /\ \E c \in Callers : calls[c].op = "add" /\ calls[c].pc = "waiting"

====
